---- MODULE Spec2Model ----
(***************************************************************************)
(* The reconciliation agent: the generate -> execute -> evaluate loop of   *)
(* backend/app/core (LangGraph nodes, router, ReconciliationAgent), the    *)
(* sandboxed executor of backend/app/services/code_executor.py and the     *)
(* session registry of backend/app/api/routes.py.                          *)
(*                                                                         *)
(* A code text is a sequence of lines drawn from a small vocabulary; a     *)
(* table (DataFrame / list of records) is a sequence of rows; a float      *)
(* match rate is the exact rational <<numerator, denominator>>.            *)
(***************************************************************************)
EXTENDS Integers, Sequences, FiniteSets, TLC

----------------------------------------------------------------------------
(* Bounds of the model *)

\* background tasks (start / feedback requests) created for the session
MaxTasks == 2
\* upload requests to the session
MaxUploads == 1
\* upload requests of a client that uploads again
MaxReuploads == 2
\* settings.MAX_ITERATIONS: 5 unless the environment sets it; kept small here
MAX_ITERATIONS == 2

(* Program constants *)

\* the literal 0.95 of evaluate_results and should_continue, as 19/20
ThresholdNum == 19
ThresholdDen == 20

None == "None"

----------------------------------------------------------------------------
(* Rationals standing for Python floats *)

Rate(n, d) == <<n, d>>
Zero == Rate(0, 1)
\* a / b >= c / d, denominators positive
RateGE(r, s) == r[1] * s[2] >= s[1] * r[2]
RateLT(r, s) == ~RateGE(r, s)
RateEq(r, s) == r[1] * s[2] = s[1] * r[2]
Threshold == Rate(ThresholdNum, ThresholdDen)

----------------------------------------------------------------------------
(* Tables *)

\* a table of n rows
Rows(n) == [i \in 1..n |-> i]

----------------------------------------------------------------------------
(* Code texts: the lines an LLM response is made of.  "<fence>" stands for  *)
(* the three-backquote markdown fence marker.                              *)

FENCE_PY == "<fence>python"
FENCE == "<fence>"
PROSE == "Here is the reconciliation code:"

L_ID == "result_df = df_a"
L_HEAD == "result_df = df_a.head(1)"
L_DUP == "result_df = pd.concat([df_a, df_a])"
L_INT == "result_df = 5"
L_NONE == "result_df = None"
L_UA == "unmatched_a = df_a.iloc[0:0]"
L_UB == "unmatched_b = df_b.iloc[0:0]"
L_UA_ALL == "unmatched_a = df_a"
L_UA_INT == "unmatched_a = 3"
L_UB_NONE == "unmatched_b = None"
L_DROP == "df_a.drop(df_a.index, inplace=True)"
L_RAISE == "x = 1 / 0"
L_SYNTAX == "result_df = ("
L_LOOP == "while True: pass"
L_LOOP_CATCH == "while True: try: pass; except: pass"
L_IMPORT_OS == "import os"
L_OPEN == "f = open('canary', 'w')"
L_EVAL == "x = Eval ('1')"
L_GETATTR == "getattr(__builtins__, 'open')"

\* CodeExecutor.BLOCKED_PATTERNS, in list order
BLOCKED_PATTERNS ==
  << "\\bimport\\s+os\\b", "\\bimport\\s+sys\\b", "\\bimport\\s+subprocess\\b",
     "\\bimport\\s+shutil\\b", "\\bimport\\s+socket\\b", "\\bimport\\s+requests\\b",
     "\\bimport\\s+urllib\\b", "\\bimport\\s+http\\b", "\\b__import__\\s*\\(",
     "\\beval\\s*\\(", "\\bexec\\s*\\(", "\\bopen\\s*\\(", "\\bfile\\s*\\(",
     "\\bcompile\\s*\\(", "\\bgetattr\\s*\\(", "\\bsetattr\\s*\\(",
     "\\bdelattr\\s*\\(", "\\bglobals\\s*\\(", "\\blocals\\s*\\(",
     "\\b__builtins__\\b", "\\b__class__\\b", "\\b__bases__\\b",
     "\\b__subclasses__\\b", "\\b__mro__\\b" >>

\* re.search without re.IGNORECASE
ReSearch_cased(pattern, line) ==
  CASE pattern = "\\bimport\\s+os\\b" /\ line = L_IMPORT_OS -> "import os"
    [] pattern = "\\bopen\\s*\\(" /\ line = L_OPEN -> "open("
    [] pattern = "\\bgetattr\\s*\\(" /\ line = L_GETATTR -> "getattr("
    [] pattern = "\\b__builtins__\\b" /\ line = L_GETATTR -> "__builtins__"
    [] OTHER -> None

\* re.search(pattern, line, re.IGNORECASE): the matched text, or None
ReSearch(pattern, line) ==
  CASE pattern = "\\bimport\\s+os\\b" /\ line = L_IMPORT_OS -> "import os"
    [] pattern = "\\bopen\\s*\\(" /\ line = L_OPEN -> "open("
    [] pattern = "\\beval\\s*\\(" /\ line = L_EVAL -> "Eval ("
    [] pattern = "\\bgetattr\\s*\\(" /\ line = L_GETATTR -> "getattr("
    [] pattern = "\\b__builtins__\\b" /\ line = L_GETATTR -> "__builtins__"
    [] OTHER -> None

\* f"Blocked pattern detected: {match.group()}"
BlockedMessage(fragment) ==
  CASE fragment = "import os" -> "Blocked pattern detected: import os"
    [] fragment = "open(" -> "Blocked pattern detected: open("
    [] fragment = "Eval (" -> "Blocked pattern detected: Eval ("
    [] fragment = "getattr(" -> "Blocked pattern detected: getattr("
    [] fragment = "__builtins__" -> "Blocked pattern detected: __builtins__"

BlockedMessages ==
  { "Blocked pattern detected: import os", "Blocked pattern detected: open(",
    "Blocked pattern detected: Eval (", "Blocked pattern detected: getattr(",
    "Blocked pattern detected: __builtins__" }

\* the patterns (by index) that match somewhere in the text
HitPatterns(code) ==
  { p \in 1..Len(BLOCKED_PATTERNS) :
      \E i \in 1..Len(code) : ReSearch(BLOCKED_PATTERNS[p], code[i]) # None }

Min(S) == CHOOSE x \in S : \A y \in S : x <= y

\* CodeExecutor.validate_code: <<is_valid, error_message>>
validate_code(code) ==
  IF HitPatterns(code) = {}
  THEN <<TRUE, None>>
  ELSE LET p == Min(HitPatterns(code))
           i == Min({ j \in 1..Len(code) : ReSearch(BLOCKED_PATTERNS[p], code[j]) # None })
       IN  <<FALSE, BlockedMessage(ReSearch(BLOCKED_PATTERNS[p], code[i]))>>

IsFence(line) == line \in {FENCE, FENCE_PY}

\* the lines after position i up to (not including) the next fence marker
RECURSIVE UntilFence(_, _)
UntilFence(code, i) ==
  IF i > Len(code) \/ IsFence(code[i])
  THEN <<>>
  ELSE <<code[i]>> \o UntilFence(code, i + 1)

\* clean_code leaving the text as the LLM sent it
clean_code_raw(code) == code

\* CodeExecutor.clean_code: the text between the first opening fence and the
\* next fence marker; the text itself when it holds no fence
clean_code(code) ==
  IF \E i \in 1..Len(code) : code[i] = FENCE_PY
  THEN UntilFence(code, Min({ i \in 1..Len(code) : code[i] = FENCE_PY }) + 1)
  ELSE IF \E i \in 1..Len(code) : code[i] = FENCE
       THEN UntilFence(code, Min({ i \in 1..Len(code) : code[i] = FENCE }) + 1)
       ELSE code

----------------------------------------------------------------------------
(* The Python values a program can bind, and exec() of a cleaned text *)

\* alias: the value is the very object bound to df_a in the scope
Unbound == [tag |-> "unbound", rows |-> <<>>, alias |-> FALSE]
PyNone == [tag |-> "None", rows |-> <<>>, alias |-> FALSE]
PyInt == [tag |-> "int", rows |-> <<>>, alias |-> FALSE]
DataFrame(rows) == [tag |-> "DataFrame", rows |-> rows, alias |-> FALSE]

\* isinstance(v, pd.DataFrame)
IsDataFrame(v) == v.tag = "DataFrame"

\* local_scope as execute builds it: copies of the two tables
LocalScope(df_a, df_b) ==
  [df_a |-> [DataFrame(df_a) EXCEPT !.alias = TRUE],
   df_b |-> DataFrame(df_b),
   result_df |-> Unbound, unmatched_a |-> Unbound, unmatched_b |-> Unbound]

DfHead(rows, n) == SubSeq(rows, 1, IF Len(rows) < n THEN Len(rows) ELSE n)

\* the lines compile() rejects
IsSyntaxError(line) == line \in {L_SYNTAX, PROSE, FENCE, FENCE_PY}

\* in-place removal of every row of the object bound to df_a
DropAll(v) == IF v.alias THEN [v EXCEPT !.rows = <<>>] ELSE v

\* one statement: <<kind, scope, error>>; kind is "next" (fell through),
\* "raise", "loop" (never ends) or "loop_catch" (never ends and swallows
\* exceptions raised inside its try block)
Statement(line, scope) ==
  CASE line = L_ID -> <<"next", [scope EXCEPT !.result_df = scope.df_a], None>>
    [] line = L_HEAD ->
         <<"next", [scope EXCEPT !.result_df = DataFrame(DfHead(scope.df_a.rows, 1))], None>>
    [] line = L_DUP ->
         <<"next", [scope EXCEPT !.result_df = DataFrame(scope.df_a.rows \o scope.df_a.rows)], None>>
    [] line = L_INT -> <<"next", [scope EXCEPT !.result_df = PyInt], None>>
    [] line = L_NONE -> <<"next", [scope EXCEPT !.result_df = PyNone], None>>
    [] line = L_UA -> <<"next", [scope EXCEPT !.unmatched_a = DataFrame(<<>>)], None>>
    [] line = L_UB -> <<"next", [scope EXCEPT !.unmatched_b = DataFrame(<<>>)], None>>
    [] line = L_UA_ALL -> <<"next", [scope EXCEPT !.unmatched_a = scope.df_a], None>>
    [] line = L_UA_INT -> <<"next", [scope EXCEPT !.unmatched_a = PyInt], None>>
    [] line = L_UB_NONE -> <<"next", [scope EXCEPT !.unmatched_b = PyNone], None>>
    [] line = L_DROP ->
         <<"next", [v \in DOMAIN scope |-> DropAll(scope[v])], None>>
    [] line = L_RAISE -> <<"raise", scope, "ZeroDivisionError: division by zero">>
    [] line = L_LOOP -> <<"loop", scope, None>>
    [] line = L_LOOP_CATCH -> <<"loop_catch", scope, None>>
    [] line = L_IMPORT_OS -> <<"raise", scope, "ImportError: __import__ not found">>
    [] line = L_OPEN -> <<"raise", scope, "NameError: name 'open' is not defined">>
    [] line = L_EVAL -> <<"raise", scope, "NameError: name 'Eval' is not defined">>
    [] line = L_GETATTR -> <<"raise", scope, "NameError: name 'getattr' is not defined">>

\* exec(code, {"__builtins__": safe_builtins}, local_scope) from line i on
RECURSIVE RunFrom(_, _, _)
RunFrom(code, i, scope) ==
  IF i > Len(code)
  THEN <<"done", scope, None>>
  ELSE LET r == Statement(code[i], scope)
       IN  IF r[1] = "next" THEN RunFrom(code, i + 1, r[2]) ELSE r

Exec(code, scope) ==
  IF \E i \in 1..Len(code) : IsSyntaxError(code[i])
  THEN <<"syntax", scope, "SyntaxError: invalid syntax at line 1">>
  ELSE RunFrom(code, 1, scope)

\* _timeout_handler: SIGALRM is armed on every platform but win32
AlarmArmed(platform) == platform # "win32"

TimeoutMessage == "Code execution timed out after 30 seconds"
MissingResultMessage == "Code did not define 'result_df' variable. The matched records must be stored in a variable named 'result_df'."
WrongResultTypeMessage == "'result_df' must be a pandas DataFrame, got int"

\* the failure dictionaries execute returns; ran: exec() was called on the text
Failure(error, ran) ==
  [returns |-> TRUE, success |-> FALSE, error |-> error, match_rate |-> Zero, ran |-> ran]

\* the run never comes back to execute
Hang == [returns |-> FALSE, success |-> FALSE, error |-> None, match_rate |-> Zero, ran |-> TRUE]

\* df.fillna("").to_dict('records')
ToRecords(v) == v.rows

\* the quotient without its guard against an empty table A
MatchRate_unguarded(matched_count, original_a_count) ==
  Rate(matched_count, original_a_count)

\* matched_count / original_a_count if original_a_count > 0 else 0
MatchRate(matched_count, original_a_count) ==
  IF original_a_count > 0 THEN Rate(matched_count, original_a_count) ELSE Zero

\* local_scope.get(name, pd.DataFrame())
GetOrEmptyFrame(v) == IF v.tag = "unbound" THEN DataFrame(<<>>) ELSE v

\* len() of the table the program's scope binds to df_a, as if the scope
\* held the caller's table itself
original_a_count_scope(df_a, scope) == Len(scope.df_a.rows)

\* original_a_count = len(df_a): the caller's table, which the scope only
\* holds a copy of, so nothing exec() did to the scope shows in it
original_a_count(df_a, scope) == Len(df_a)

\* execute without its isinstance check: len() of a value that is not a
\* table raises inside the try block
ExtractResults_nocheck(scope, df_a, df_b) ==
  LET result_df == scope.result_df
      unmatched_a == GetOrEmptyFrame(scope.unmatched_a)
      unmatched_b == GetOrEmptyFrame(scope.unmatched_b)
  IN  IF result_df.tag \in {"unbound", "None"}
      THEN Failure(MissingResultMessage, TRUE)
      ELSE IF ~IsDataFrame(result_df)
      THEN Failure("TypeError: object of type 'int' has no len()", TRUE)
      ELSE [returns |-> TRUE, success |-> TRUE, error |-> None, ran |-> TRUE,
            matched |-> ToRecords(result_df),
            unmatched_a |-> IF IsDataFrame(unmatched_a) THEN ToRecords(unmatched_a) ELSE <<>>,
            unmatched_b |-> IF IsDataFrame(unmatched_b) THEN ToRecords(unmatched_b) ELSE <<>>,
            match_rate |-> MatchRate(Len(result_df.rows), original_a_count(df_a, scope)),
            match_count |-> Len(result_df.rows),
            total_a |-> original_a_count(df_a, scope),
            total_b |-> Len(df_b)]

\* lines 198-248 of execute: the statistics of a run that ended normally
ExtractResults(scope, df_a, df_b) ==
  LET result_df == scope.result_df
      unmatched_a == GetOrEmptyFrame(scope.unmatched_a)
      unmatched_b == GetOrEmptyFrame(scope.unmatched_b)
  IN  IF result_df.tag \in {"unbound", "None"}
      THEN Failure(MissingResultMessage, TRUE)
      ELSE IF ~IsDataFrame(result_df)
      THEN Failure(WrongResultTypeMessage, TRUE)
      ELSE [returns |-> TRUE, success |-> TRUE, error |-> None, ran |-> TRUE,
            matched |-> ToRecords(result_df),
            unmatched_a |-> IF IsDataFrame(unmatched_a) THEN ToRecords(unmatched_a) ELSE <<>>,
            unmatched_b |-> IF IsDataFrame(unmatched_b) THEN ToRecords(unmatched_b) ELSE <<>>,
            match_rate |-> MatchRate(Len(result_df.rows), original_a_count(df_a, scope)),
            match_count |-> Len(result_df.rows),
            total_a |-> original_a_count(df_a, scope),
            total_b |-> Len(df_b)]

\* execute stripping the fences first and validating what is left
execute_clean_first(code, df_a, df_b, platform, caught) ==
  LET valid == validate_code(clean_code(code))
  IN  IF ~valid[1]
      THEN Failure(valid[2], FALSE)
      ELSE LET r == Exec(clean_code(code), LocalScope(df_a, df_b))
           IN  CASE r[1] = "done" -> ExtractResults(r[2], df_a, df_b)
                 [] r[1] = "syntax" -> Failure(r[3], TRUE)
                 [] r[1] = "raise" -> Failure(r[3], TRUE)
                 [] r[1] = "loop" ->
                      IF AlarmArmed(platform) THEN Failure(TimeoutMessage, TRUE) ELSE Hang
                 [] r[1] = "loop_catch" ->
                      IF AlarmArmed(platform) /\ ~caught
                      THEN Failure(TimeoutMessage, TRUE)
                      ELSE Hang

\* CodeExecutor.execute(code, df_a, df_b).  caught: the alarm's TimeoutError
\* is raised inside a try block of the program that swallows it
execute(code, df_a, df_b, platform, caught) ==
  LET valid == validate_code(code)
  IN  IF ~valid[1]
      THEN Failure(valid[2], FALSE)
      ELSE LET r == Exec(clean_code(code), LocalScope(df_a, df_b))
           IN  CASE r[1] = "done" -> ExtractResults(r[2], df_a, df_b)
                 [] r[1] = "syntax" -> Failure(r[3], TRUE)
                 [] r[1] = "raise" -> Failure(r[3], TRUE)
                 [] r[1] = "loop" ->
                      IF AlarmArmed(platform) THEN Failure(TimeoutMessage, TRUE) ELSE Hang
                 [] r[1] = "loop_catch" ->
                      IF AlarmArmed(platform) /\ ~caught
                      THEN Failure(TimeoutMessage, TRUE)
                      ELSE Hang

----------------------------------------------------------------------------
(* ReconciliationState and the graph nodes *)

AnalysisText == "analysis"
StrategyText == "strategy"
LLMError == "LLM request failed"

\* create_initial_state
create_initial_state(dataset_a, dataset_b, max_iterations) ==
  [dataset_a |-> dataset_a,
   dataset_b |-> dataset_b,
   total_a |-> Len(dataset_a),
   total_b |-> Len(dataset_b),
   user_feedback |-> None,
   analysis |-> None,
   matching_strategy |-> None,
   python_code |-> <<>>,
   code_history |-> <<>>,
   execution_result |-> <<>>,
   execution_error |-> None,
   matched_records |-> <<>>,
   unmatched_a |-> <<>>,
   unmatched_b |-> <<>>,
   match_rate |-> Zero,
   match_count |-> 0,
   iterations |-> 0,
   max_iterations |-> max_iterations,
   status |-> "analyzing",
   reasoning_trace |-> <<>>]

\* analyze_schemas, given the LLM's response
analyze_schemas(state, analysis) ==
  [state EXCEPT
     !.analysis = analysis,
     !.status = "generating",
     !.reasoning_trace = Append(state.reasoning_trace, <<"Schema Analysis", analysis>>)]

\* generate_strategy, given the LLM's response
generate_strategy(state, strategy) ==
  [state EXCEPT
     !.matching_strategy = strategy,
     !.reasoning_trace = Append(state.reasoning_trace, <<"Matching Strategy", strategy>>)]

\* the previous_error generate_code puts in its prompt
PreviousError(state) ==
  IF state.execution_error # None /\ state.python_code # <<>>
  THEN state.execution_error
  ELSE None

\* generate_code, given the LLM's response
generate_code(state, code) ==
  [state EXCEPT
     !.python_code = code,
     !.code_history = IF state.python_code # <<>>
                      THEN Append(state.code_history, state.python_code)
                      ELSE state.code_history,
     !.status = "executing",
     !.iterations = state.iterations + 1,
     !.execution_error = None,
     !.reasoning_trace = Append(state.reasoning_trace,
                                <<"Generated Code", state.iterations + 1, code>>)]

\* execute_code whose failure branch leaves the match statistics of the
\* previous round
execute_code_keep(state, result) ==
  IF result.success
  THEN [state EXCEPT
          !.execution_result = <<"Success", result.match_count, result.total_a>>,
          !.execution_error = None,
          !.matched_records = result.matched,
          !.unmatched_a = result.unmatched_a,
          !.unmatched_b = result.unmatched_b,
          !.match_rate = result.match_rate,
          !.match_count = result.match_count,
          !.status = "evaluating",
          !.reasoning_trace = Append(state.reasoning_trace,
             <<"Execution Result: SUCCESS", result.match_rate, result.match_count, result.total_a>>)]
  ELSE [state EXCEPT
          !.execution_result = <<"Error", result.error>>,
          !.execution_error = result.error,
          !.status = "evaluating",
          !.reasoning_trace = Append(state.reasoning_trace, <<"Execution Error", result.error>>)]

\* execute_code treating a failed run as the end of the session
execute_code_fatal(state, result) ==
  IF result.success
  THEN [state EXCEPT
          !.execution_result = <<"Success", result.match_count, result.total_a>>,
          !.execution_error = None,
          !.matched_records = result.matched,
          !.unmatched_a = result.unmatched_a,
          !.unmatched_b = result.unmatched_b,
          !.match_rate = result.match_rate,
          !.match_count = result.match_count,
          !.status = "evaluating",
          !.reasoning_trace = Append(state.reasoning_trace,
             <<"Execution Result: SUCCESS", result.match_rate, result.match_count, result.total_a>>)]
  ELSE [state EXCEPT
          !.execution_result = <<"Error", result.error>>,
          !.execution_error = result.error,
          !.match_rate = Zero,
          !.match_count = 0,
          !.status = "error",
          !.reasoning_trace = Append(state.reasoning_trace, <<"Execution Error", result.error>>)]

\* execute_code whose failure branch also empties the record sets
execute_code_clear(state, result) ==
  IF result.success
  THEN [state EXCEPT
          !.execution_result = <<"Success", result.match_count, result.total_a>>,
          !.execution_error = None,
          !.matched_records = result.matched,
          !.unmatched_a = result.unmatched_a,
          !.unmatched_b = result.unmatched_b,
          !.match_rate = result.match_rate,
          !.match_count = result.match_count,
          !.status = "evaluating",
          !.reasoning_trace = Append(state.reasoning_trace,
             <<"Execution Result: SUCCESS", result.match_rate, result.match_count, result.total_a>>)]
  ELSE [state EXCEPT
          !.execution_result = <<"Error", result.error>>,
          !.execution_error = result.error,
          !.matched_records = <<>>,
          !.unmatched_a = <<>>,
          !.unmatched_b = <<>>,
          !.match_rate = Zero,
          !.match_count = 0,
          !.status = "evaluating",
          !.reasoning_trace = Append(state.reasoning_trace, <<"Execution Error", result.error>>)]

\* execute_code, given what code_executor.execute returned
execute_code(state, result) ==
  IF result.success
  THEN [state EXCEPT
          !.execution_result = <<"Success", result.match_count, result.total_a>>,
          !.execution_error = None,
          !.matched_records = result.matched,
          !.unmatched_a = result.unmatched_a,
          !.unmatched_b = result.unmatched_b,
          !.match_rate = result.match_rate,
          !.match_count = result.match_count,
          !.status = "evaluating",
          !.reasoning_trace = Append(state.reasoning_trace,
             <<"Execution Result: SUCCESS", result.match_rate, result.match_count, result.total_a>>)]
  ELSE [state EXCEPT
          !.execution_result = <<"Error", result.error>>,
          !.execution_error = result.error,
          !.match_rate = Zero,
          !.match_count = 0,
          !.status = "evaluating",
          !.reasoning_trace = Append(state.reasoning_trace, <<"Execution Error", result.error>>)]

\* evaluate_results giving up only once iterations exceed max_iterations
EvaluateStatus_late(has_error, match_rate, iterations, max_iterations) ==
  IF ~has_error /\ RateGE(match_rate, Threshold)
  THEN "complete"
  ELSE IF iterations > max_iterations
       THEN "awaiting_feedback"
       ELSE "generating"

\* evaluate_results with the threshold compared strictly
EvaluateStatus_strict(has_error, match_rate, iterations, max_iterations) ==
  IF ~has_error /\ ~RateGE(Threshold, match_rate)
  THEN "complete"
  ELSE IF iterations >= max_iterations
       THEN "awaiting_feedback"
       ELSE "generating"

\* evaluate_results giving up one iteration before max_iterations
EvaluateStatus_early(has_error, match_rate, iterations, max_iterations) ==
  IF ~has_error /\ RateGE(match_rate, Threshold)
  THEN "complete"
  ELSE IF iterations + 1 >= max_iterations
       THEN "awaiting_feedback"
       ELSE "generating"

\* evaluate_results without the limit on the iterations
EvaluateStatus_unlimited(has_error, match_rate, iterations, max_iterations) ==
  IF ~has_error /\ RateGE(match_rate, Threshold)
  THEN "complete"
  ELSE "generating"

\* evaluate_results naming its retry decision "retrying"
EvaluateStatus_retrying(has_error, match_rate, iterations, max_iterations) ==
  IF ~has_error /\ RateGE(match_rate, Threshold)
  THEN "complete"
  ELSE IF iterations >= max_iterations
       THEN "awaiting_feedback"
       ELSE "retrying"

\* the status evaluate_results decides on
EvaluateStatus(has_error, match_rate, iterations, max_iterations) ==
  IF ~has_error /\ RateGE(match_rate, Threshold)
  THEN "complete"
  ELSE IF iterations >= max_iterations
       THEN "awaiting_feedback"
       ELSE "generating"

\* evaluate_results writing no trace entry when it sends the loop back to
\* generate
evaluate_results_silent(state) ==
  LET match_rate == state.match_rate
      has_error == state.execution_error # None
      iterations == state.iterations
      max_iterations == state.max_iterations
      status == EvaluateStatus(has_error, match_rate, iterations, max_iterations)
      entry == CASE status = "complete" -> <<"Evaluation: Complete", match_rate>>
                 [] OTHER ->
                      <<"Evaluation: Reached max iterations", max_iterations, match_rate>>
  IN  [state EXCEPT
         !.status = status,
         !.reasoning_trace = IF status = "generating"
                             THEN state.reasoning_trace
                             ELSE Append(state.reasoning_trace, entry)]

\* evaluate_results
evaluate_results(state) ==
  LET match_rate == state.match_rate
      has_error == state.execution_error # None
      iterations == state.iterations
      max_iterations == state.max_iterations
      status == EvaluateStatus(has_error, match_rate, iterations, max_iterations)
      entry == CASE status = "complete" -> <<"Evaluation: Complete", match_rate>>
                 [] status = "awaiting_feedback" ->
                      <<"Evaluation: Reached max iterations", max_iterations, match_rate>>
                 [] status = "generating" /\ has_error -> <<"Evaluation: Error detected">>
                 [] OTHER -> <<"Evaluation: below threshold", match_rate, iterations, max_iterations>>
  IN  [state EXCEPT
         !.status = status,
         !.reasoning_trace = Append(state.reasoning_trace, entry)]

\* process_feedback setting the iteration counter back to 0
process_feedback_reset(state) ==
  [state EXCEPT
     !.status = "generating",
     !.iterations = 0,
     !.reasoning_trace = Append(state.reasoning_trace,
                                <<"User Feedback Received", state.user_feedback>>)]

\* process_feedback
process_feedback(state) ==
  [state EXCEPT
     !.status = "generating",
     !.reasoning_trace = Append(state.reasoning_trace,
                                <<"User Feedback Received", state.user_feedback>>)]

\* should_continue deciding from the numbers alone, with the threshold
\* compared strictly
should_continue_strict(state) ==
  IF state.execution_error # None \/ RateGE(Threshold, state.match_rate)
  THEN IF state.iterations < state.max_iterations
       THEN "retry"
       ELSE "await_feedback"
  ELSE "complete"

\* should_continue: the route taken after the evaluate node
should_continue(state) ==
  LET status == state.status
  IN  IF status = "complete" THEN "complete"
      ELSE IF status = "awaiting_feedback" THEN "await_feedback"
      ELSE IF status \in {"generating", "executing", "evaluating"}
      THEN IF state.execution_error # None \/ RateLT(state.match_rate, Threshold)
           THEN IF state.iterations < state.max_iterations
                THEN "retry"
                ELSE "await_feedback"
           ELSE "complete"
      ELSE "retry"

END == "__end__"

\* the conditional edges of create_reconciliation_graph
RouteTarget(route) ==
  CASE route = "complete" -> END
    [] route = "retry" -> "generate"
    [] route = "await_feedback" -> END

\* the node scheduled after `node` has run on `state` (the graph's edges)
NextNode(node, state) ==
  CASE node = "analyze" -> "strategize"
    [] node = "strategize" -> "generate"
    [] node = "generate" -> "execute"
    [] node = "execute" -> "evaluate"
    [] node = "evaluate" -> RouteTarget(should_continue(state))
    [] node = "process_feedback" -> "generate"
    [] node = "__start__" -> "analyze"

----------------------------------------------------------------------------
(* Inputs *)

C_IDENT == <<FENCE_PY, L_ID, L_UA, L_UB, FENCE>>
C_HEAD == <<L_HEAD>>
C_DUP == <<L_DUP>>
C_RAISE == <<L_RAISE>>
C_LOOP == <<L_LOOP>>

\* the code texts the LLM answers a code request with
Codes == {C_IDENT, C_HEAD, C_DUP, C_RAISE, C_LOOP}

\* the pairs of tables an upload parses
Uploads == { <<Rows(0), Rows(0)>>, <<Rows(2), Rows(3)>>, <<Rows(10), Rows(10)>> }

Feedbacks == {"match on the invoice number"}

Platforms == {"linux", "win32"}

SID == "s1"

\* Settings(): MATCH_RATE_THRESHOLD: float = 0.95 (MAX_ITERATIONS is the
\* definition above)
DefaultSettings == [MATCH_RATE_THRESHOLD |-> Rate(19, 20)]

\* the settings an environment or .env file can give
EnvSettings ==
  { [MATCH_RATE_THRESHOLD |-> r] : r \in {Rate(1, 2), Rate(19, 20), Rate(99, 100)} }

----------------------------------------------------------------------------
(* State *)

VARIABLES
  platform,        \* sys.platform
  settings,        \* app.config.settings, as loaded from the environment
  sessions,        \* routes.sessions: the ids in the registry
  session,         \* the session dictionary created for SID
  uploads,         \* upload requests: <<started, reading>>
  tasks,           \* the background tasks created so far, in creation order
  heap,            \* the state dictionaries the agent returned, by allocating task
  agent_sessions,  \* ReconciliationAgent.sessions[SID]: a key of heap, or 0
  checkpoint,      \* the checkpointer's thread of SID
  exec_calls,      \* the texts exec() has been called on
  response,        \* the answer of the request the last step finished, if any
  peer             \* what the registry and the agent hold under another session id

vars == <<platform, settings, sessions, session, uploads, tasks, heap, agent_sessions,
          checkpoint, exec_calls, response, peer>>

NoSession == [status |-> "absent", df_a |-> PyNone, df_b |-> PyNone,
              results |-> 0, error |-> None]

\* another session: whether sessions holds its id, the status of its
\* dictionary, and whether the agent holds a state and a checkpoint for it
Peer(registered, status, stored) ==
  [registered |-> registered, status |-> status, stored |-> stored]

\* no other session has been created
NoPeer == Peer(FALSE, "absent", FALSE)

\* an HTTP answer: the handler, the status code and what the body tells
Response(op, code, body) == [op |-> op, code |-> code, body |-> body]

\* the last step finished no request
NoResponse == Response(None, 0, None)

NoState == create_initial_state(<<>>, <<>>, MAX_ITERATIONS)

NoCheckpoint == [exists |-> FALSE, values |-> NoState, last |-> "__start__"]

Init ==
  /\ platform \in Platforms
  /\ settings = DefaultSettings
  /\ sessions = {}
  /\ session = NoSession
  /\ uploads = <<0, 0>>
  /\ tasks = <<>>
  /\ heap = <<>>
  /\ agent_sessions = 0
  /\ checkpoint = NoCheckpoint
  /\ exec_calls = {}
  /\ response = NoResponse
  /\ peer = NoPeer

TaskIds == 1..Len(tasks)

\* no call of code_executor.execute has returned to the task yet
NoResult == [returns |-> FALSE, success |-> FALSE, error |-> None,
             match_rate |-> Zero, ran |-> FALSE]

\* a task as asyncio.create_task leaves it: not yet run.  requested_in: the
\* status its request found the session in
NewTask(kind, feedback) ==
  [kind |-> kind, pc |-> "created", state |-> NoState, initial_state |-> NoState,
   current_state |-> 0, feedback |-> feedback, code_requests |-> 0,
   result |-> NoResult, outcome |-> None, requested_in |-> session.status]

----------------------------------------------------------------------------
(* routes.py *)

\* raise HTTPException(status_code=code, detail=detail): nothing else changes
Refuse(op, code, detail) ==
  /\ response' = Response(op, code, detail)
  /\ UNCHANGED <<platform, settings, peer, sessions, session, uploads, tasks, heap, agent_sessions,
                 checkpoint, exec_calls>>

\* POST /sessions
create_session ==
  /\ session = NoSession
  /\ sessions' = sessions \cup {SID}
  /\ session' = [status |-> "created", df_a |-> PyNone, df_b |-> PyNone,
                 results |-> 0, error |-> None]
  /\ response' = Response("create_session", 200, "created")
  /\ UNCHANGED <<platform, settings, peer, uploads, tasks, heap, agent_sessions, checkpoint, exec_calls>>

\* POST /sessions/{id}/upload, up to the first read of the files; at most
\* `limit` upload requests are followed
upload_files_upto(limit) ==
  IF SID \notin sessions
  THEN Refuse("upload_files", 404, "Session not found")
  ELSE /\ uploads[1] < limit
       /\ session' = [session EXCEPT !.status = "uploading"]
       /\ uploads' = <<uploads[1] + 1, uploads[2] + 1>>
       /\ response' = NoResponse
       /\ UNCHANGED <<platform, settings, peer, sessions, tasks, heap, agent_sessions, checkpoint, exec_calls>>

upload_files_begin == upload_files_upto(MaxUploads)

\* the rest of upload_files when both files parse
upload_files_parsed(pair) ==
  /\ uploads[2] > 0
  /\ session' = [session EXCEPT !.df_a = DataFrame(pair[1]),
                                !.df_b = DataFrame(pair[2]),
                                !.status = "uploaded"]
  /\ uploads' = <<uploads[1], uploads[2] - 1>>
  /\ response' = Response("upload_files", 200, "uploaded")
  /\ UNCHANGED <<platform, settings, peer, sessions, tasks, heap, agent_sessions, checkpoint, exec_calls>>

\* the rest of upload_files when reading or parsing raises
upload_files_failed ==
  /\ uploads[2] > 0
  /\ session' = [session EXCEPT !.status = "error"]
  /\ uploads' = <<uploads[1], uploads[2] - 1>>
  /\ response' = Response("upload_files", 400, "parse error")
  /\ UNCHANGED <<platform, settings, peer, sessions, tasks, heap, agent_sessions, checkpoint, exec_calls>>

\* start_reconciliation without its check of the two tables
start_reconciliation_unchecked ==
  IF SID \notin sessions
  THEN Refuse("start_reconciliation", 404, "Session not found")
  ELSE /\ Len(tasks) < MaxTasks
       /\ session' = [session EXCEPT !.status = "analyzing"]
       /\ tasks' = Append(tasks, NewTask("start", None))
       /\ response' = Response("start_reconciliation", 200, "started")
       /\ UNCHANGED <<platform, settings, peer, sessions, uploads, heap, agent_sessions, checkpoint, exec_calls>>

\* POST /sessions/{id}/reconcile
start_reconciliation ==
  IF SID \notin sessions
  THEN Refuse("start_reconciliation", 404, "Session not found")
  ELSE IF session.df_a = PyNone \/ session.df_b = PyNone
  THEN Refuse("start_reconciliation", 400, "Please upload datasets first")
  ELSE /\ Len(tasks) < MaxTasks
       /\ session' = [session EXCEPT !.status = "analyzing"]
       /\ tasks' = Append(tasks, NewTask("start", None))
       /\ response' = Response("start_reconciliation", 200, "started")
       /\ UNCHANGED <<platform, settings, peer, sessions, uploads, heap, agent_sessions, checkpoint, exec_calls>>

\* get_status reading the state of the running loop from the checkpointer
StatusBody_live(sess) ==
  [status |-> IF checkpoint.exists THEN checkpoint.values.status ELSE sess.status,
   iteration |-> checkpoint.values.iterations,
   max_iterations |-> MAX_ITERATIONS,
   match_rate |-> checkpoint.values.match_rate,
   message |-> checkpoint.values.execution_result,
   error |-> IF checkpoint.values.execution_error # None
             THEN checkpoint.values.execution_error
             ELSE sess.error]

\* GET /sessions/{id}/status: the body for the session dictionary `sess`
\* (results = session.get("results") or {})
StatusBody(sess) ==
  IF sess.results = 0
  THEN [status |-> sess.status, iteration |-> 0, max_iterations |-> MAX_ITERATIONS,
        match_rate |-> Zero, message |-> None, error |-> sess.error]
  ELSE LET results == heap[sess.results]
       IN  [status |-> sess.status,
            iteration |-> results.iterations,
            max_iterations |-> MAX_ITERATIONS,
            match_rate |-> results.match_rate,
            message |-> results.execution_result,
            error |-> IF results.execution_error # None
                      THEN results.execution_error
                      ELSE sess.error]

\* GET /sessions/{id}/status
get_status ==
  /\ IF SID \notin sessions
     THEN response' = Response("get_status", 404, "Session not found")
     ELSE response' = Response("get_status", 200, StatusBody(session))
  /\ UNCHANGED <<platform, settings, peer, sessions, session, uploads, tasks, heap, agent_sessions,
                 checkpoint, exec_calls>>

\* GET /sessions/{id}/results: the body, from the dictionary session["results"]
ResultsBody(sess) ==
  LET results == heap[sess.results]
  IN  [status |-> sess.status,
       match_rate |-> results.match_rate,
       matched_count |-> results.match_count,
       unmatched_a_count |-> Len(results.unmatched_a),
       unmatched_b_count |-> Len(results.unmatched_b),
       total_a_count |-> results.total_a,
       total_b_count |-> results.total_b,
       generated_code |-> results.python_code,
       reasoning_trace |-> results.reasoning_trace,
       matched_records |-> results.matched_records,
       unmatched_a |-> results.unmatched_a,
       unmatched_b |-> results.unmatched_b]

\* GET /sessions/{id}/results
get_results ==
  /\ IF SID \notin sessions
     THEN response' = Response("get_results", 404, "Session not found")
     ELSE IF session.results = 0
     THEN response' = Response("get_results", 400, "Reconciliation not complete")
     ELSE response' = Response("get_results", 200, ResultsBody(session))
  /\ UNCHANGED <<platform, settings, peer, sessions, session, uploads, tasks, heap, agent_sessions,
                 checkpoint, exec_calls>>

\* POST /sessions/{id}/feedback
submit_feedback(feedback) ==
  IF SID \notin sessions
  THEN Refuse("submit_feedback", 404, "Session not found")
  ELSE /\ Len(tasks) < MaxTasks
       /\ session' = [session EXCEPT !.status = "refining"]
       /\ tasks' = Append(tasks, NewTask("feedback", feedback))
       /\ response' = Response("submit_feedback", 200, "refining")
       /\ UNCHANGED <<platform, settings, peer, sessions, uploads, heap, agent_sessions, checkpoint, exec_calls>>

\* delete_session without its lookup: del sessions[session_id] raises KeyError
delete_session_unchecked ==
  /\ sessions' = sessions \ {SID}
  /\ response' = IF SID \in sessions
                 THEN Response("delete_session", 200, "Session deleted")
                 ELSE Response("delete_session", 500, "KeyError")
  /\ UNCHANGED <<platform, settings, peer, session, uploads, tasks, heap, agent_sessions, checkpoint,
                 exec_calls>>

\* delete_session emptying the registry, sessions.clear()
delete_session_all ==
  IF SID \notin sessions
  THEN Refuse("delete_session", 404, "Session not found")
  ELSE /\ sessions' = {}
       /\ peer' = [peer EXCEPT !.registered = FALSE]
       /\ response' = Response("delete_session", 200, "Session deleted")
       /\ UNCHANGED <<platform, settings, session, uploads, tasks, heap, agent_sessions, checkpoint,
                      exec_calls>>

\* DELETE /sessions/{id}
delete_session ==
  IF SID \notin sessions
  THEN Refuse("delete_session", 404, "Session not found")
  ELSE /\ sessions' = sessions \ {SID}
       /\ response' = Response("delete_session", 200, "Session deleted")
       /\ UNCHANGED <<platform, settings, peer, session, uploads, tasks, heap, agent_sessions, checkpoint,
                      exec_calls>>

----------------------------------------------------------------------------
(* The background tasks: agent.py run by run_reconciliation and            *)
(* process_feedback_task of routes.py                                      *)

\* the values of SessionStatus
SessionStatus ==
  {"created", "uploading", "uploaded", "analyzing", "generating", "executing",
   "evaluating", "awaiting_feedback", "refining", "complete", "error"}

\* session["results"] = result; session["status"] = SessionStatus(result.get("status"))
StoreResult(sess, ref, status) ==
  IF status \in SessionStatus
  THEN [sess EXCEPT !.results = ref, !.status = status]
  ELSE [sess EXCEPT !.results = ref, !.status = "error", !.error = "ValueError"]

\* a superstep's checkpoint: the values after `node` ran
Saved(values, node) == [exists |-> TRUE, values |-> values, last |-> node]

\* where a task stands once `node` has run on `state`
After(node, state) ==
  IF NextNode(node, state) = END THEN "finish" ELSE NextNode(node, state)

\* ReconciliationAgent.start_reconciliation up to the first LLM call:
\* the initial state is built and given to the graph as its input
agent_start(t) ==
  /\ tasks[t].kind = "start" /\ tasks[t].pc = "created"
  /\ LET initial_state == create_initial_state(ToRecords(session.df_a),
                                               ToRecords(session.df_b), MAX_ITERATIONS)
     IN  /\ tasks' = [tasks EXCEPT ![t].pc = After("__start__", initial_state),
                                   ![t].state = initial_state,
                                   ![t].initial_state = initial_state]
         /\ checkpoint' = Saved(initial_state, "__start__")
  /\ UNCHANGED <<platform, settings, peer, sessions, session, uploads, heap, agent_sessions, exec_calls>>
  /\ response' = NoResponse

\* ReconciliationAgent.submit_feedback up to the first LLM call
agent_submit_feedback(t) ==
  /\ tasks[t].kind = "feedback" /\ tasks[t].pc = "created"
  /\ IF agent_sessions = 0
     THEN \* ValueError, caught by process_feedback_task
          /\ session' = [session EXCEPT !.status = "error", !.error = "Session not found"]
          /\ tasks' = [tasks EXCEPT ![t].pc = "done", ![t].outcome = "error"]
          /\ UNCHANGED <<heap, checkpoint>>
     ELSE LET current_state == agent_sessions
              updated == [heap[current_state] EXCEPT !.user_feedback = tasks[t].feedback,
                                                     !.status = "refining"]
              values == [checkpoint.values EXCEPT !.user_feedback = tasks[t].feedback,
                                                  !.status = "refining"]
          IN  /\ heap' = [heap EXCEPT ![current_state] = process_feedback(updated)]
              /\ checkpoint' = Saved(values, checkpoint.last)
              /\ tasks' = [tasks EXCEPT ![t].pc = After(checkpoint.last, values),
                                        ![t].state = values,
                                        ![t].current_state = current_state]
              /\ UNCHANGED session
  /\ UNCHANGED <<platform, settings, peer, sessions, uploads, agent_sessions, exec_calls>>
  /\ response' = NoResponse

\* a node has run: the task's state, its place and the checkpoint
Advance(t, node, state) ==
  /\ tasks' = [tasks EXCEPT ![t].pc = After(node, state), ![t].state = state]
  /\ checkpoint' = Saved(state, node)

\* the analyze node, the LLM answering
node_analyze(t) ==
  /\ tasks[t].pc = "analyze"
  /\ Advance(t, "analyze", analyze_schemas(tasks[t].state, AnalysisText))
  /\ UNCHANGED <<platform, settings, peer, sessions, session, uploads, heap, agent_sessions, exec_calls>>
  /\ response' = NoResponse

\* the strategize node, the LLM answering
node_strategize(t) ==
  /\ tasks[t].pc = "strategize"
  /\ Advance(t, "strategize", generate_strategy(tasks[t].state, StrategyText))
  /\ UNCHANGED <<platform, settings, peer, sessions, session, uploads, heap, agent_sessions, exec_calls>>
  /\ response' = NoResponse

\* the generate node, the LLM answering with `code`
node_generate(t, code) ==
  /\ tasks[t].pc = "generate"
  /\ tasks' = [tasks EXCEPT
                 ![t].pc = After("generate", generate_code(tasks[t].state, code)),
                 ![t].state = generate_code(tasks[t].state, code),
                 ![t].code_requests = tasks[t].code_requests + 1]
  /\ checkpoint' = Saved(generate_code(tasks[t].state, code), "generate")
  /\ UNCHANGED <<platform, settings, peer, sessions, session, uploads, heap, agent_sessions, exec_calls>>
  /\ response' = NoResponse

\* the execute node
node_execute(t, caught) ==
  /\ tasks[t].pc = "execute"
  /\ \E result \in {execute(tasks[t].state.python_code, tasks[t].state.dataset_a,
                            tasks[t].state.dataset_b, platform, caught)} :
       /\ exec_calls' = IF result.ran
                        THEN exec_calls \cup {clean_code(tasks[t].state.python_code)}
                        ELSE exec_calls
       /\ IF result.returns
          THEN \E state \in {execute_code(tasks[t].state, result)} :
                 /\ tasks' = [tasks EXCEPT ![t].pc = After("execute", state),
                                           ![t].state = state,
                                           ![t].result = result]
                 /\ checkpoint' = Saved(state, "execute")
          ELSE /\ tasks' = [tasks EXCEPT ![t].pc = "hung", ![t].result = result]
               /\ UNCHANGED checkpoint
  /\ UNCHANGED <<platform, settings, peer, sessions, session, uploads, heap, agent_sessions>>
  /\ response' = NoResponse

\* the evaluate node and the router after it
node_evaluate(t) ==
  /\ tasks[t].pc = "evaluate"
  /\ Advance(t, "evaluate", evaluate_results(tasks[t].state))
  /\ UNCHANGED <<platform, settings, peer, sessions, session, uploads, heap, agent_sessions, exec_calls>>
  /\ response' = NoResponse

\* llm_fails with except branches that keep no str(e)
llm_fails_quiet(t) ==
  /\ tasks[t].pc \in {"analyze", "strategize", "generate"}
  /\ tasks' = [tasks EXCEPT
                 ![t].pc = "done",
                 ![t].outcome = "error",
                 ![t].code_requests = IF tasks[t].pc = "generate" THEN @ + 1 ELSE @]
  /\ IF tasks[t].kind = "start"
     THEN /\ heap' = (t :> [tasks[t].initial_state EXCEPT !.status = "error"]) @@ heap
          /\ agent_sessions' = t
          /\ session' = StoreResult(session, t, "error")
     ELSE /\ heap' = [heap EXCEPT ![tasks[t].current_state].status = "error"]
          /\ UNCHANGED agent_sessions
          /\ session' = StoreResult(session, tasks[t].current_state, "error")
  /\ UNCHANGED <<platform, settings, peer, sessions, uploads, checkpoint, exec_calls>>
  /\ response' = NoResponse

\* the LLM call of analyze, strategize or generate raises: the except
\* branches of start_reconciliation and of submit_feedback
llm_fails(t) ==
  /\ tasks[t].pc \in {"analyze", "strategize", "generate"}
  /\ tasks' = [tasks EXCEPT
                 ![t].pc = "done",
                 ![t].outcome = "error",
                 ![t].code_requests = IF tasks[t].pc = "generate" THEN @ + 1 ELSE @]
  /\ IF tasks[t].kind = "start"
     THEN /\ heap' = (t :> [tasks[t].initial_state EXCEPT !.status = "error",
                                                          !.execution_error = LLMError])
                     @@ heap
          /\ agent_sessions' = t
          /\ session' = StoreResult(session, t, "error")
     ELSE /\ heap' = [heap EXCEPT ![tasks[t].current_state].status = "error",
                                  ![tasks[t].current_state].execution_error = LLMError]
          /\ UNCHANGED agent_sessions
          /\ session' = StoreResult(session, tasks[t].current_state, "error")
  /\ UNCHANGED <<platform, settings, peer, sessions, uploads, checkpoint, exec_calls>>
  /\ response' = NoResponse

\* task_returns writing through the registry, sessions[session_id] = {...},
\* where the code writes to the dictionary it captured
task_returns_by_id(t) ==
  /\ tasks[t].pc = "finish"
  /\ tasks' = [tasks EXCEPT ![t].pc = "done", ![t].outcome = tasks[t].state.status]
  /\ heap' = (t :> tasks[t].state) @@ heap
  /\ agent_sessions' = t
  /\ session' = StoreResult(session, t, tasks[t].state.status)
  /\ sessions' = sessions \cup {SID}
  /\ UNCHANGED <<platform, settings, peer, uploads, checkpoint, exec_calls>>
  /\ response' = NoResponse

\* ainvoke returns the final state: it is stored by the agent and by the route
task_returns(t) ==
  /\ tasks[t].pc = "finish"
  /\ tasks' = [tasks EXCEPT ![t].pc = "done", ![t].outcome = tasks[t].state.status]
  /\ heap' = (t :> tasks[t].state) @@ heap
  /\ agent_sessions' = t
  /\ session' = StoreResult(session, t, tasks[t].state.status)
  /\ UNCHANGED <<platform, settings, peer, sessions, uploads, checkpoint, exec_calls>>
  /\ response' = NoResponse

----------------------------------------------------------------------------

Next ==
  \/ create_session
  \/ upload_files_begin
  \/ \E pair \in Uploads : upload_files_parsed(pair)
  \/ upload_files_failed
  \/ start_reconciliation
  \/ \E feedback \in Feedbacks : submit_feedback(feedback)
  \/ delete_session
  \/ get_status
  \/ get_results
  \/ \E t \in TaskIds : agent_start(t)
  \/ \E t \in TaskIds : agent_submit_feedback(t)
  \/ \E t \in TaskIds : node_analyze(t)
  \/ \E t \in TaskIds : node_strategize(t)
  \/ \E t \in TaskIds, code \in Codes : node_generate(t, code)
  \/ \E t \in TaskIds, caught \in BOOLEAN : node_execute(t, caught)
  \/ \E t \in TaskIds : node_evaluate(t)
  \/ \E t \in TaskIds : llm_fails(t)
  \/ \E t \in TaskIds : task_returns(t)

Spec == Init /\ [][Next]_vars

----------------------------------------------------------------------------
(* One loop started by POST /reconcile, run to its end by the event loop *)

InitLoop ==
  /\ platform \in Platforms
  /\ settings = DefaultSettings
  /\ sessions = {SID}
  /\ \E pair \in Uploads :
       session = [status |-> "analyzing", df_a |-> DataFrame(pair[1]),
                  df_b |-> DataFrame(pair[2]), results |-> 0, error |-> None]
  /\ uploads = <<1, 0>>
  /\ tasks = <<NewTask("start", None)>>
  /\ heap = <<>>
  /\ agent_sessions = 0
  /\ checkpoint = NoCheckpoint
  /\ exec_calls = {}
  /\ response = NoResponse
  /\ peer = NoPeer

\* one step of the background task: the event loop runs a task that can
\* run, and an awaited LLM call answers or raises
LoopStep ==
  \/ \E t \in TaskIds : agent_start(t)
  \/ \E t \in TaskIds : node_analyze(t)
  \/ \E t \in TaskIds : node_strategize(t)
  \/ \E t \in TaskIds, code \in Codes : node_generate(t, code)
  \/ \E t \in TaskIds, caught \in BOOLEAN : node_execute(t, caught)
  \/ \E t \in TaskIds : node_evaluate(t)
  \/ \E t \in TaskIds : llm_fails(t)
  \/ \E t \in TaskIds : task_returns(t)

NextLoop == LoopStep \/ delete_session

SpecLoop == InitLoop /\ [][NextLoop]_vars /\ WF_vars(LoopStep)

----------------------------------------------------------------------------
(* A running loop next to another session: the handlers and tasks of     *)
(* routes.py run for a second session id                                 *)

\* everything SID owns
own == <<sessions, session, uploads, tasks, heap, agent_sessions, checkpoint, exec_calls>>

\* POST /sessions answered with the other id
peer_create ==
  /\ peer = NoPeer
  /\ peer' = Peer(TRUE, "created", FALSE)
  /\ response' = NoResponse
  /\ UNCHANGED <<platform, settings, own>>

\* the other session's loop runs and its result is stored under its id
peer_runs ==
  /\ peer.registered /\ peer.status = "created"
  /\ peer' = Peer(TRUE, "complete", TRUE)
  /\ response' = NoResponse
  /\ UNCHANGED <<platform, settings, own>>

\* DELETE /sessions/{id} with the other id
peer_delete ==
  /\ peer.registered
  /\ peer' = [peer EXCEPT !.registered = FALSE]
  /\ response' = NoResponse
  /\ UNCHANGED <<platform, settings, own>>

NextTwo ==
  \/ NextLoop
  \/ get_status
  \/ get_results
  \/ peer_create
  \/ peer_runs
  \/ peer_delete

SpecTwo == InitLoop /\ [][NextTwo]_vars

----------------------------------------------------------------------------
(* A client that uploads to its session more than once *)

NextUpload ==
  \/ create_session
  \/ upload_files_upto(MaxReuploads)
  \/ \E pair \in Uploads : upload_files_parsed(pair)
  \/ upload_files_failed
  \/ get_status
  \/ delete_session

SpecUpload == Init /\ [][NextUpload]_vars

----------------------------------------------------------------------------
(* The evaluate node on every combination of its inputs *)

EvalRates == {Rate(0, 1), Rate(1, 2), Rate(47, 50), Rate(19, 20), Rate(1, 1), Rate(2, 1)}
EvalIterations == 0..6
EvalMaxIterations == {1, 2, 5}
EvalErrors == {None, "ZeroDivisionError: division by zero"}

\* a session whose only task stands before `node` with the state `state`
InitAt(node, last, state) ==
  /\ sessions = {SID}
  /\ session = [status |-> "analyzing", df_a |-> DataFrame(state.dataset_a),
                df_b |-> DataFrame(state.dataset_b), results |-> 0, error |-> None]
  /\ uploads = <<1, 0>>
  /\ tasks = << [NewTask("start", None) EXCEPT
                   !.pc = node, !.state = state,
                   !.initial_state = create_initial_state(state.dataset_a, state.dataset_b,
                                                          state.max_iterations),
                   !.code_requests = state.iterations] >>
  /\ heap = <<>>
  /\ agent_sessions = 0
  /\ checkpoint = Saved(state, last)
  /\ exec_calls = {}
  /\ response = NoResponse
  /\ peer = NoPeer

InitEval ==
  /\ platform = "linux"
  /\ settings \in EnvSettings
  /\ \E e \in EvalErrors, r \in EvalRates, i \in EvalIterations, m \in EvalMaxIterations :
       InitAt("evaluate", "execute",
              [create_initial_state(Rows(2), Rows(3), m) EXCEPT
                 !.status = "evaluating", !.python_code = C_HEAD, !.iterations = i,
                 !.match_rate = r, !.execution_error = e])

NextEval == \E t \in TaskIds : node_evaluate(t)

SpecEval == InitEval /\ [][NextEval]_vars

----------------------------------------------------------------------------
(* The execute node on every kind of code text *)

C_PLAIN == <<L_ID>>
C_FENCED == <<PROSE, FENCE, L_ID, FENCE, PROSE>>
C_PROSE == <<PROSE, L_ID>>
C_EMPTY == <<>>
C_NO_RESULT == <<L_UA, L_UB>>
C_NONE == <<L_NONE>>
C_INT == <<L_INT, L_UA>>
C_BAD_UNMATCHED == <<L_ID, L_UA_INT, L_UB_NONE>>
C_ALL_UNMATCHED == <<L_HEAD, L_UA_ALL>>
C_DROP == <<L_ID, L_DROP>>
C_DROP_FIRST == <<L_DROP, L_HEAD>>
C_SYNTAX == <<L_ID, L_SYNTAX>>
C_RAISE_LATE == <<L_ID, L_RAISE>>
C_LOOP_CATCH == <<L_ID, L_LOOP_CATCH>>
C_IMPORT_OS == <<L_IMPORT_OS, L_ID>>
C_OPEN == <<L_ID, L_OPEN>>
C_EVAL == <<FENCE_PY, L_EVAL, L_ID, FENCE>>
C_GETATTR == <<L_GETATTR, L_LOOP>>
C_BLOCKED_OUTSIDE == <<L_IMPORT_OS, FENCE_PY, L_ID, FENCE>>

ExecCodes ==
  Codes \cup
  {C_PLAIN, C_FENCED, C_PROSE, C_EMPTY, C_NO_RESULT, C_NONE, C_INT, C_BAD_UNMATCHED,
   C_ALL_UNMATCHED, C_DROP, C_DROP_FIRST, C_SYNTAX, C_RAISE_LATE, C_LOOP_CATCH,
   C_IMPORT_OS, C_OPEN, C_EVAL, C_GETATTR, C_BLOCKED_OUTSIDE}

ExecTablesA == {Rows(0), Rows(1), Rows(2), Rows(10)}
ExecTablesB == {Rows(0), Rows(10)}

\* the state the generate node leaves: a first generation, or a generation
\* after a run that matched one row
Generated(code, a, b, again) ==
  IF again
  THEN [create_initial_state(a, b, MAX_ITERATIONS) EXCEPT
          !.status = "executing", !.python_code = code, !.iterations = 2,
          !.code_history = <<C_HEAD>>, !.matched_records = Rows(1),
          !.unmatched_a = Rows(1), !.match_rate = Rate(1, 4), !.match_count = 1]
  ELSE [create_initial_state(a, b, MAX_ITERATIONS) EXCEPT
          !.status = "executing", !.python_code = code, !.iterations = 1]

InitExec ==
  /\ platform \in Platforms
  /\ settings = DefaultSettings
  /\ \E code \in ExecCodes, a \in ExecTablesA, b \in ExecTablesB, again \in BOOLEAN :
       InitAt("execute", "generate", Generated(code, a, b, again))

NextExec ==
  \/ \E t \in TaskIds, caught \in BOOLEAN : node_execute(t, caught)
  \/ \E t \in TaskIds : node_evaluate(t)

SpecExec == InitExec /\ [][NextExec]_vars

----------------------------------------------------------------------------
(* The loop from a first execution on: every kind of code text is run, *)
(* evaluated and, on retry, followed by a new generation, up to the     *)
(* return of the run                                                     *)

NextRetry ==
  \/ NextExec
  \/ \E t \in TaskIds, code \in Codes : node_generate(t, code)
  \/ \E t \in TaskIds : task_returns(t)

SpecRetry == InitExec /\ [][NextRetry]_vars

----------------------------------------------------------------------------
(* Claims *)

\* the evaluate node has run on the task's state
Evaluated(t) == tasks[t].pc \in {"generate", "finish"}

\* the decision rule of the evaluator, on a rate n/d
Decision(has_error, n, d, iterations, max_iterations) ==
  IF ~has_error /\ 20 * n >= 19 * d
  THEN "complete"
  ELSE IF iterations >= max_iterations
       THEN "awaiting_feedback"
       ELSE "generating"

\* C1: for every combination of (error, match_rate, iterations, max_iterations)
\* evaluate_results sets status complete when there is no error and
\* match_rate >= 0.95, otherwise awaiting_feedback when iterations >=
\* max_iterations, otherwise generating (retry); (no error, 0.95, 1, 5) gives
\* complete, (error, 5, 5) awaiting_feedback, (no error, 0.5, 2, 5) retry.
C1_EvaluateDecides ==
  \A t \in TaskIds :
    Evaluated(t) =>
      LET st == tasks[t].state
          has_error == st.execution_error # None
      IN  /\ st.status = Decision(has_error, st.match_rate[1], st.match_rate[2],
                                  st.iterations, st.max_iterations)
          /\ (~has_error /\ st.match_rate = <<19, 20>> /\ st.iterations = 1
                /\ st.max_iterations = 5) => st.status = "complete"
          /\ (has_error /\ st.iterations = 5 /\ st.max_iterations = 5)
                => st.status = "awaiting_feedback"
          /\ (~has_error /\ st.match_rate = <<1, 2>> /\ st.iterations = 2
                /\ st.max_iterations = 5) => st.status = "generating"

C1_Witness ==
  \E t \in TaskIds :
    /\ Evaluated(t)
    /\ tasks[t].state.execution_error = None
    /\ tasks[t].state.match_rate = <<19, 20>>
    /\ tasks[t].state.iterations = 1
    /\ tasks[t].state.max_iterations = 5
    /\ tasks[t].state.status = "complete"

\* the loop of task t has stopped: ainvoke returned or raised
Halted(t) ==
  /\ tasks[t].pc = "done"
  /\ tasks[t].outcome \in {"complete", "awaiting_feedback", "error"}
  /\ tasks[t].code_requests <= MAX_ITERATIONS

\* C2: every loop started by start_reconciliation halts, provided each LLM
\* call and each sandbox run returns: it eventually stops in status complete,
\* awaiting_feedback or error, having requested code from the LLM at most
\* max_iterations times.
C2_LoopHalts ==
  \A t \in 1..MaxTasks :
    (t \in TaskIds /\ tasks[t].kind = "start" /\ tasks[t].pc = "created")
      ~> (t \in TaskIds /\ (tasks[t].pc = "hung" \/ Halted(t)))

C2_Witness ==
  \E t \in TaskIds :
    /\ tasks[t].kind = "start"
    /\ Halted(t)
    /\ tasks[t].outcome = "awaiting_feedback"
    /\ tasks[t].code_requests = MAX_ITERATIONS

\* the execute node has just run on the task's python_code
JustExecuted(t) == tasks[t].pc \in {"evaluate", "hung"}

\* iterations <= max_iterations in a state dictionary
WithinIterations(state) == state.iterations <= state.max_iterations

\* C3: in every reachable state of a session, over any sequence of start,
\* retry rounds and feedback submissions, iterations <= max_iterations,
\* except immediately after a retry decision that advances it (read
\* generously: while the round the retry started is still running its
\* execute and evaluate nodes, or stuck in its sandbox run).
C3_IterationsBounded ==
  /\ \A t \in TaskIds :
       tasks[t].pc \notin {"execute", "evaluate", "hung"}
         => WithinIterations(tasks[t].state)
  /\ \A h \in DOMAIN heap : WithinIterations(heap[h])

\* a rate is a number between 0.0 and 1.0
InUnitInterval(r) == r[2] > 0 /\ 0 <= r[1] /\ r[1] <= r[2]

\* C4: for every outcome returned by CodeExecutor.execute, and so for every
\* match_rate stored in a session, 0.0 <= match_rate <= 1.0, whatever the row
\* counts of the result table and of table A.
C4_RateInUnitInterval ==
  /\ \A t \in TaskIds :
       /\ InUnitInterval(tasks[t].result.match_rate)
       /\ InUnitInterval(tasks[t].state.match_rate)
  /\ InUnitInterval(checkpoint.values.match_rate)
  /\ \A h \in DOMAIN heap : InUnitInterval(heap[h].match_rate)

\* the text holds a construct of the denylist
Denylisted(code) ==
  \E i \in 1..Len(code) : code[i] \in {L_IMPORT_OS, L_OPEN, L_EVAL, L_GETATTR}

\* the fragment the error of a blocked text names
OffendingFragments(code) ==
  { m \in BlockedMessages :
      \/ m = "Blocked pattern detected: import os" /\ \E i \in 1..Len(code) : code[i] = L_IMPORT_OS
      \/ m = "Blocked pattern detected: open(" /\ \E i \in 1..Len(code) : code[i] = L_OPEN
      \/ m = "Blocked pattern detected: Eval (" /\ \E i \in 1..Len(code) : code[i] = L_EVAL
      \/ m \in {"Blocked pattern detected: getattr(", "Blocked pattern detected: __builtins__"}
           /\ \E i \in 1..Len(code) : code[i] = L_GETATTR }

\* C5: for every program text containing a denylisted construct, execute
\* returns a ValidationBlocked failure (success false, error naming the
\* offending fragment) and exec() is never called on the program.
C5_BlockedNeverRuns ==
  \A t \in TaskIds :
    (JustExecuted(t) /\ Denylisted(tasks[t].state.python_code)) =>
      /\ tasks[t].result.returns
      /\ ~tasks[t].result.success
      /\ tasks[t].result.error \in OffendingFragments(tasks[t].state.python_code)
      /\ ~tasks[t].result.ran
      /\ exec_calls = {}

C5_Witness ==
  \E t \in TaskIds :
    /\ JustExecuted(t)
    /\ tasks[t].state.python_code = C_BLOCKED_OUTSIDE
    /\ tasks[t].result.error = "Blocked pattern detected: import os"
    /\ tasks[t].state.execution_error = "Blocked pattern detected: import os"

\* what exec() does with the task's program
RunOf(t) ==
  Exec(clean_code(tasks[t].state.python_code),
       LocalScope(tasks[t].state.dataset_a, tasks[t].state.dataset_b))

\* the program passes validation and does not terminate
NonTerminating(t) ==
  /\ ~Denylisted(tasks[t].state.python_code)
  /\ RunOf(t)[1] \in {"loop", "loop_catch"}

\* C6: for every program that does not terminate within the configured
\* timeout, execute returns a Timeout failure (success false) instead of
\* running forever, and the session loop continues to the evaluating step.
C6_TimeoutReturned ==
  \A t \in TaskIds :
    (JustExecuted(t) /\ NonTerminating(t)) =>
      /\ tasks[t].pc = "evaluate"
      /\ tasks[t].result.returns
      /\ ~tasks[t].result.success
      /\ tasks[t].result.error = TimeoutMessage
      /\ tasks[t].state.status = "evaluating"

\* the kinds of failure of a run: the text is blocked, the program runs out
\* of time, does not compile, raises, or leaves no table in result_df
FailureCase(t) ==
  \/ Denylisted(tasks[t].state.python_code)
  \/ RunOf(t)[1] \in {"loop", "loop_catch", "syntax", "raise"}
  \/ RunOf(t)[1] = "done" /\ ~IsDataFrame(RunOf(t)[2].result_df)

\* C7: every failure of execute (validation blocked, timeout, syntax error,
\* missing result, wrong result type, runtime error) that execute returns is
\* a value with success = false and match_rate = 0.0, and the session
\* records match_rate 0.0 and match_count 0, keeps the error and moves to
\* evaluating.
C7_FailureIsAValue ==
  \A t \in TaskIds :
    (tasks[t].pc = "evaluate" /\ FailureCase(t)) =>
      /\ tasks[t].result.returns
      /\ ~tasks[t].result.success
      /\ tasks[t].result.error # None
      /\ tasks[t].result.match_rate = Zero
      /\ tasks[t].state.match_rate = Zero
      /\ tasks[t].state.match_count = 0
      /\ tasks[t].state.execution_error = tasks[t].result.error
      /\ tasks[t].state.status = "evaluating"
      /\ checkpoint.values = tasks[t].state

C7_Witness ==
  \E t \in TaskIds :
    /\ tasks[t].pc = "evaluate"
    /\ tasks[t].state.python_code = C_RAISE_LATE
    /\ tasks[t].state.iterations = 2
    /\ tasks[t].state.matched_records = Rows(1)
    /\ tasks[t].state.match_count = 0
    /\ tasks[t].state.execution_error = "ZeroDivisionError: division by zero"

\* the program binds result_df to table A and changes nothing
IdentityProgram(code) == code \in {C_PLAIN, C_IDENT, C_FENCED}

\* C8: for a program that binds the result variable to table A unchanged,
\* execute succeeds with match_count equal to the row count of table A,
\* match_rate = 1.0 when table A is non-empty, and match_rate = 0.0 when
\* table A is empty.
C8_IdentityMatchesAll ==
  \A t \in TaskIds :
    (JustExecuted(t) /\ IdentityProgram(tasks[t].state.python_code)) =>
      LET result == tasks[t].result
          total_a == Len(tasks[t].state.dataset_a)
      IN  /\ result.returns /\ result.success
          /\ result.match_count = total_a
          /\ result.matched = tasks[t].state.dataset_a
          /\ total_a > 0 => (result.match_rate[2] > 0 /\ RateEq(result.match_rate, Rate(1, 1)))
          /\ total_a = 0 => result.match_rate = Zero

\* table A is empty
C8_Witness ==
  \E t \in TaskIds :
    /\ JustExecuted(t)
    /\ tasks[t].state.python_code = C_FENCED
    /\ tasks[t].state.dataset_a = <<>>
    /\ tasks[t].result.success
    /\ tasks[t].result.match_rate = Zero

\* the outcome when result_df is a table: success, with an unmatched side
\* that is absent or not a table given as the empty list
UnmatchedTolerated(t, scope) ==
  /\ tasks[t].result.success
  /\ ~IsDataFrame(scope.unmatched_a) => tasks[t].result.unmatched_a = <<>>
  /\ ~IsDataFrame(scope.unmatched_b) => tasks[t].result.unmatched_b = <<>>
  /\ IsDataFrame(scope.unmatched_a) => tasks[t].result.unmatched_a = scope.unmatched_a.rows
  /\ IsDataFrame(scope.unmatched_b) => tasks[t].result.unmatched_b = scope.unmatched_b.rows

\* C9 as stated: a program that leaves result_df unbound gets MissingResult,
\* one that binds it to a value that is not a table gets WrongResultType;
\* unmatched-side variables that are absent or not tables yield empty
\* unmatched sets rather than a failure.
C9_AsStated ==
  \A t \in TaskIds :
    (JustExecuted(t) /\ ~Denylisted(tasks[t].state.python_code) /\ RunOf(t)[1] = "done") =>
      LET scope == RunOf(t)[2]
      IN  /\ scope.result_df = Unbound =>
               tasks[t].result = Failure(MissingResultMessage, TRUE)
          /\ (scope.result_df # Unbound /\ ~IsDataFrame(scope.result_df)) =>
               tasks[t].result = Failure(WrongResultTypeMessage, TRUE)
          /\ IsDataFrame(scope.result_df) => UnmatchedTolerated(t, scope)

\* C9: a program that leaves result_df unbound, or bound to None, gets the
\* MissingResult failure; one that binds it to any other value that is not a
\* table gets the WrongResultType failure; neither is a generic runtime
\* error or a success, and unmatched-side variables that are absent or not
\* tables yield empty unmatched sets rather than a failure.
C9_MissingOrWrongType ==
  \A t \in TaskIds :
    (JustExecuted(t) /\ ~Denylisted(tasks[t].state.python_code) /\ RunOf(t)[1] = "done") =>
      LET scope == RunOf(t)[2]
      IN  /\ scope.result_df \in {Unbound, PyNone} =>
               tasks[t].result = Failure(MissingResultMessage, TRUE)
          /\ (scope.result_df \notin {Unbound, PyNone} /\ ~IsDataFrame(scope.result_df)) =>
               tasks[t].result = Failure(WrongResultTypeMessage, TRUE)
          /\ IsDataFrame(scope.result_df) => UnmatchedTolerated(t, scope)

\* result_df = None
C9_Witness ==
  \E t \in TaskIds :
    /\ JustExecuted(t)
    /\ tasks[t].state.python_code = C_NONE
    /\ tasks[t].result = Failure(MissingResultMessage, TRUE)
    /\ tasks[t].state.execution_error = MissingResultMessage

\* the evaluate node has run on the first program of a start task, the
\* identity program on two identical 10-row tables
TenRowIdentityRun(t) ==
  /\ tasks[t].kind = "start"
  /\ tasks[t].pc \in {"generate", "finish", "done"}
  /\ tasks[t].state.dataset_a = Rows(10)
  /\ tasks[t].state.dataset_b = Rows(10)
  /\ tasks[t].state.python_code = C_IDENT
  /\ tasks[t].state.code_history = <<>>

\* C10: with two identical 10-row tables and an LLM whose program returns
\* the first table unmodified with empty unmatched sets, a started session
\* ends with status complete, match_rate 1.0, matched count 10, unmatched
\* counts 0 and iteration count 1 (exactly one code generation).
C10_EndToEnd ==
  \A t \in TaskIds :
    TenRowIdentityRun(t) =>
      /\ tasks[t].pc # "generate"
      /\ tasks[t].state.status = "complete"
      /\ RateEq(tasks[t].state.match_rate, Rate(1, 1))
      /\ tasks[t].state.match_count = 10
      /\ Len(tasks[t].state.matched_records) = 10
      /\ Len(tasks[t].state.unmatched_a) = 0
      /\ Len(tasks[t].state.unmatched_b) = 0
      /\ tasks[t].state.iterations = 1
      /\ tasks[t].code_requests = 1
      /\ tasks[t].pc = "done" => tasks[t].outcome = "complete"

\* the run has returned and the route has stored it
C10_Witness ==
  \E t \in TaskIds :
    /\ TenRowIdentityRun(t)
    /\ tasks[t].pc = "done"
    /\ tasks[t].outcome = "complete"
    /\ agent_sessions = t
    /\ session.status = "complete"
    /\ session.results = t
    /\ heap[t].match_count = 10

\* the trace entry process_feedback writes for a feedback text
FeedbackEntry(feedback) == <<"User Feedback Received", feedback>>

\* the entries of a reasoning trace
Entries(trace) == { trace[i] : i \in 1..Len(trace) }

\* the agent has ingested the feedback of task t for a session whose loop had
\* stopped in awaiting_feedback after max_iterations iterations
FeedbackIngested(t) ==
  /\ tasks[t].kind = "feedback"
  /\ tasks[t].requested_in = "awaiting_feedback"
  /\ tasks[t].current_state # 0
  /\ tasks[tasks[t].current_state].kind = "start"
  /\ tasks[tasks[t].current_state].outcome = "awaiting_feedback"
  /\ tasks[tasks[t].current_state].state.iterations = MAX_ITERATIONS

\* C11: when a session in awaiting_feedback (after max_iterations iterations)
\* receives feedback, from then on the reasoning trace held by the agent and
\* returned by get_results holds the feedback text as its own entry, also
\* after the refinement run has finished.
C11_FeedbackInTrace ==
  \A t \in TaskIds :
    FeedbackIngested(t) =>
      /\ agent_sessions # 0
      /\ FeedbackEntry(tasks[t].feedback) \in Entries(heap[agent_sessions].reasoning_trace)
      /\ session.results # 0 =>
           FeedbackEntry(tasks[t].feedback) \in Entries(heap[session.results].reasoning_trace)

\* the iteration counter the agent holds for the session (0 before any run
\* has been stored)
StoredIterations == IF agent_sessions = 0 THEN 0 ELSE heap[agent_sessions].iterations

\* the step is the agent's ingestion of the feedback of task t
Ingests(t) ==
  /\ tasks[t].kind = "feedback"
  /\ tasks[t].pc = "created"
  /\ tasks'[t].current_state # 0

\* the step is a code generation of task t
Generates(t) == tasks[t].pc = "generate" /\ tasks'[t].pc = "execute"

\* what a step does to the counters: no run's counter goes down; an
\* ingestion of feedback leaves the loop's counter k (the checkpointed one
\* the run resumes with) and the stored one as they are; a generation is
\* numbered one more than the counter it found
CounterKept ==
  /\ \A t \in TaskIds : tasks'[t].state.iterations >= tasks[t].state.iterations
  /\ \A t \in TaskIds :
       Ingests(t) =>
         /\ tasks'[t].state.iterations = checkpoint.values.iterations
         /\ checkpoint'.values.iterations = checkpoint.values.iterations
         /\ heap'[tasks'[t].current_state].iterations
              = heap[tasks'[t].current_state].iterations
  /\ \A t \in TaskIds :
       Generates(t) =>
         /\ tasks'[t].state.iterations = tasks[t].state.iterations + 1
         /\ tasks'[t].state.reasoning_trace[Len(tasks'[t].state.reasoning_trace)]
              = <<"Generated Code", tasks[t].state.iterations + 1, tasks'[t].state.python_code>>

AcceptsFeedback ==
  /\ Len(tasks') = Len(tasks) + 1
  /\ tasks'[Len(tasks')].kind = "feedback"

\* C13: submit_feedback moves a session to refining only while the session is
\* in awaiting_feedback or complete; refining is entered only through
\* submit_feedback; and every entry into refining is followed by a code
\* generation, never by a direct move to error or to a halt.
C13_RefiningGuarded ==
  [][/\ AcceptsFeedback => session.status \in {"awaiting_feedback", "complete"}
     /\ (session'.status = "refining" /\ session.status # "refining") => AcceptsFeedback
     /\ \A t \in TaskIds :
          (tasks[t].kind = "feedback" /\ tasks[t].pc = "created" /\ tasks'[t].pc # "created")
            => tasks'[t].pc = "generate"]_vars

\* the operations of the API that take a session id
SessionOps ==
  {"upload_files", "start_reconciliation", "get_status", "get_results",
   "submit_feedback", "delete_session"}

\* the step answers a request that looked the session id up in this step
\* (an upload that finishes answers a lookup made when it began)
AnswersLookup(op) == response'.op = op /\ uploads' = uploads

\* the step leaves the registry, the session and everything it owns alone
NothingChanged ==
  UNCHANGED <<platform, settings, peer, sessions, session, uploads, tasks, heap, agent_sessions,
              checkpoint, exec_calls>>

\* C14: every API operation (upload, start, get_status, get_results,
\* submit_feedback, delete_session) fails with NotFound for a session id that
\* is not in the registry, an id deleted earlier included, and leaves the
\* registry unchanged.
C14_UnknownIdNotFound ==
  [][\A op \in SessionOps :
       (SID \notin sessions /\ AnswersLookup(op)) =>
         /\ response' = Response(op, 404, "Session not found")
         /\ NothingChanged]_vars

\* get_results refused for a session that was created, ran a loop and was
\* deleted
C14_Witness ==
  /\ SID \notin sessions
  /\ session.status = "complete"
  /\ session.results # 0
  /\ response = Response("get_results", 404, "Session not found")

\* a run of the session's loop has returned its state to run_reconciliation
\* or process_feedback_task
ProducedResult ==
  \E t \in TaskIds :
    /\ tasks[t].pc = "done"
    /\ ~(tasks[t].kind = "feedback" /\ tasks[t].current_state = 0)

\* C15: start fails with NotReady and launches no loop when either table is
\* missing from the session, and get_results fails with NotReady whenever the
\* session's loop has not yet produced a result; in both cases the session
\* state is left unchanged.
C15_NotReady ==
  [][/\ (/\ SID \in sessions
         /\ response'.op = "start_reconciliation"
         /\ (session.df_a = PyNone \/ session.df_b = PyNone)) =>
          /\ response' = Response("start_reconciliation", 400, "Please upload datasets first")
          /\ NothingChanged
     /\ (SID \in sessions /\ response'.op = "get_results" /\ ~ProducedResult) =>
          /\ response' = Response("get_results", 400, "Reconciliation not complete")
          /\ NothingChanged]_vars

\* get_results refused while the first loop is still running
C15_Witness ==
  /\ response = Response("get_results", 400, "Reconciliation not complete")
  /\ session.status = "analyzing"
  /\ \E t \in TaskIds : tasks[t].pc = "evaluate"

\* the nodes that call the LLM
LLMNodes == {"analyze", "strategize", "generate"}

\* the step in which the LLM call of task t's node raises
FailedCall(t) == tasks[t].pc \in LLMNodes /\ tasks'[t].pc = "done"

\* C16: when an LLM call fails in analyze, strategize or generate of a started
\* or feedback-resumed loop, the session ends in status error with the
\* failure message as its error text, and the call is not retried: the run
\* makes no further LLM call.
C16_LLMFailureEndsRun ==
  [][\A t \in TaskIds :
       /\ FailedCall(t) =>
            /\ tasks'[t].outcome = "error"
            /\ session'.status = "error"
            /\ session'.results # 0
            /\ heap'[session'.results].execution_error = LLMError
       /\ tasks[t].pc = "done" => tasks'[t] = tasks[t]]_vars

\* a feedback-resumed loop whose generate call failed, as get_status reports it
C16_Witness ==
  /\ \E t \in TaskIds :
       /\ tasks[t].kind = "feedback"
       /\ tasks[t].pc = "done"
       /\ tasks[t].outcome = "error"
       /\ tasks[t].current_state # 0
       /\ tasks[t].code_requests = 1
  /\ response.op = "get_status"
  /\ response.code = 200
  /\ response.body.status = "error"
  /\ response.body.error = LLMError

\* task t's loop completed at least one iteration, then failed on an LLM
\* call, and its outcome is what the session holds
FailedAfterIterations(t) ==
  /\ tasks[t].pc = "done"
  /\ tasks[t].outcome = "error"
  /\ tasks[t].state.iterations >= 1
  /\ session.results # 0
  /\ IF tasks[t].kind = "start"
     THEN session.results = t
     ELSE session.results = tasks[t].current_state
  /\ \A u \in TaskIds : u > t => tasks[u].pc = "created"

\* C17: after a loop has completed k >= 1 iterations and then fails on an LLM
\* call, get_status and get_results report the iteration count, match rate
\* and reasoning trace reached before the failure, together with the error.
\* Stated for the loops begun by start, whose state before the failure is
\* the task's own.
C17_LastGoodStateReported ==
  \A t \in TaskIds :
    (FailedAfterIterations(t) /\ tasks[t].kind = "start" /\ response.code = 200) =>
      /\ response.op = "get_status" =>
           /\ response.body.iteration = tasks[t].state.iterations
           /\ response.body.match_rate = tasks[t].state.match_rate
           /\ response.body.error = LLMError
      /\ response.op = "get_results" =>
           /\ response.body.match_rate = tasks[t].state.match_rate
           /\ response.body.reasoning_trace = tasks[t].state.reasoning_trace

\* the nodes of the graph
GraphNodes == {"analyze", "strategize", "generate", "execute", "evaluate"}

\* `later` is `earlier` with exactly one entry appended
OneAppended(earlier, later) ==
  /\ Len(later) = Len(earlier) + 1
  /\ SubSeq(later, 1, Len(earlier)) = earlier

\* the step in which task t's node returns its update
NodeRuns(t) == tasks[t].pc \in GraphNodes /\ tasks'[t].state # tasks[t].state

\* the kind of entry each node writes
EntryKinds(node) ==
  CASE node = "analyze" -> {"Schema Analysis"}
    [] node = "strategize" -> {"Matching Strategy"}
    [] node = "generate" -> {"Generated Code"}
    [] node = "execute" -> {"Execution Result: SUCCESS", "Execution Error"}
    [] node = "evaluate" -> {"Evaluation: Complete", "Evaluation: Reached max iterations",
                             "Evaluation: Error detected", "Evaluation: below threshold"}

\* the trace of a run with n code generations and no feedback, in step order
InStepOrder(trace, n) ==
  /\ Len(trace) = 2 + 3 * n
  /\ trace[1][1] \in EntryKinds("analyze")
  /\ trace[2][1] \in EntryKinds("strategize")
  /\ \A i \in 1..n :
       /\ trace[3 * i][1] \in EntryKinds("generate")
       /\ trace[3 * i][2] = i
       /\ trace[3 * i + 1][1] \in EntryKinds("execute")
       /\ trace[3 * i + 2][1] \in EntryKinds("evaluate")

\* C18: every transition (analyze, strategize, generate, execute, evaluate,
\* feedback ingestion) appends exactly one entry to the reasoning trace, so a
\* run with n code generations and no feedback ends with a trace of exactly
\* 2 + 3n entries in step order.
C18_OneEntryPerTransition ==
  [][\A t \in TaskIds :
       /\ NodeRuns(t) =>
            /\ OneAppended(tasks[t].state.reasoning_trace, tasks'[t].state.reasoning_trace)
            /\ tasks'[t].state.reasoning_trace[Len(tasks'[t].state.reasoning_trace)][1]
                 \in EntryKinds(tasks[t].pc)
       /\ Ingests(t) =>
            /\ OneAppended(heap[tasks'[t].current_state].reasoning_trace,
                           heap'[tasks'[t].current_state].reasoning_trace)
            /\ FeedbackEntry(tasks[t].feedback)
                 = heap'[tasks'[t].current_state].reasoning_trace[
                     Len(heap'[tasks'[t].current_state].reasoning_trace)]
       /\ (tasks[t].kind = "start" /\ tasks[t].pc = "finish") =>
            InStepOrder(tasks[t].state.reasoning_trace, tasks[t].code_requests)]_vars

\* a started run that generated code twice and returned its eight entries
C18_Witness ==
  \E t \in TaskIds :
    /\ tasks[t].kind = "start"
    /\ tasks[t].pc = "done"
    /\ tasks[t].outcome = "awaiting_feedback"
    /\ tasks[t].code_requests = MAX_ITERATIONS
    /\ Len(tasks[t].state.reasoning_trace) = 2 + 3 * MAX_ITERATIONS
    /\ InStepOrder(tasks[t].state.reasoning_trace, MAX_ITERATIONS)

\* the trace seen through the agent's session state
AgentTrace ==
  IF agent_sessions = 0 THEN <<>> ELSE heap[agent_sessions].reasoning_trace

\* the trace get_results returns
ResultsTrace ==
  IF session.results = 0 THEN <<>> ELSE heap[session.results].reasoning_trace

IsPrefix(earlier, later) ==
  /\ Len(earlier) <= Len(later)
  /\ SubSeq(later, 1, Len(earlier)) = earlier

\* the session was started at most once, and feedback was submitted only
\* while it awaited feedback
OrderlyUse ==
  \A t \in TaskIds :
    /\ tasks[t].kind = "start" => t = 1
    /\ tasks[t].kind = "feedback" => tasks[t].requested_in = "awaiting_feedback"

\* C19: the reasoning trace of a session is append-only: of two observations
\* of it, through the agent's session state or through get_results, the
\* earlier is a prefix of the later; no entry is removed, reordered or
\* rewritten.  Stated for a session started once and given feedback only
\* while it awaits feedback.
C19_TraceAppendOnly ==
  [][OrderlyUse' =>
       /\ IsPrefix(AgentTrace, AgentTrace')
       /\ IsPrefix(ResultsTrace, ResultsTrace')]_vars

\* task t's loop has begun and has not yet handed its state back: it is
\* between two awaits of run_reconciliation or process_feedback_task
Running(t) == tasks[t].pc \in GraphNodes \cup {"finish"}

\* C20: per-session state is touched by at most one active loop at a time:
\* whatever the interleaving of start and submit_feedback requests on one
\* session, no two background loops (run_reconciliation or
\* process_feedback_task) run concurrently for it.
C20_OneLoopAtATime ==
  \A t, u \in TaskIds : (Running(t) /\ Running(u)) => t = u

\* the session was created and then deleted
Deleted == SID \notin sessions /\ session.status # "absent"

\* C21: deleting a session while its loop is mid-flight does not corrupt the
\* registry: after delete_session the id stays absent from the registry for
\* ever, also when the loop finishes later and writes its results and
\* status, and no other session's entry is altered.
C21_DeletedStaysAbsent ==
  [][/\ Deleted => Deleted'
     /\ (SID \in sessions /\ SID \notin sessions') => peer' = peer
     /\ (Deleted /\ tasks' # tasks) => peer' = peer]_vars

\* the session has just been deleted while its loop is inside the graph and
\* another session is registered
C21_Witness ==
  /\ Deleted
  /\ response = Response("delete_session", 200, "Session deleted")
  /\ \E t \in TaskIds : tasks[t].pc = "execute"
  /\ peer.registered

\* C22: deleting a session while its loop is mid-flight stops further trace
\* mutation: once delete_session has returned, no node of that session's loop
\* appends to its reasoning trace and the agent stores or updates no state
\* for that id.
C22_DeleteStopsLoop ==
  [][Deleted =>
       /\ \A t \in TaskIds : ~NodeRuns(t)
       /\ agent_sessions' = agent_sessions
       /\ heap' = heap
       /\ checkpoint' = checkpoint]_vars

\* both tables of the session are there
TablesUploaded == session.df_a # PyNone /\ session.df_b # PyNone

\* C23: the two input tables of a session are immutable once uploaded: after
\* a successful upload no operation on the session (a further upload, start,
\* a sandbox run, feedback) changes the tables the session holds.
C23_TablesImmutable ==
  [][TablesUploaded =>
       /\ session'.df_a = session.df_a
       /\ session'.df_b = session.df_b]_vars

FeedbackInOrder ==
  \A t \in TaskIds :
    tasks[t].kind = "feedback" =>
      tasks[t].requested_in \in {"complete", "awaiting_feedback"}

\* the edges of the status machine
StatusEdges ==
  {<<"created", "uploaded">>, <<"uploaded", "analyzing">>, <<"analyzing", "generating">>,
   <<"generating", "executing">>, <<"executing", "evaluating">>,
   <<"evaluating", "complete">>, <<"evaluating", "awaiting_feedback">>,
   <<"evaluating", "generating">>, <<"complete", "refining">>,
   <<"awaiting_feedback", "refining">>, <<"refining", "generating">>}

\* the registry's status may go from `a` to `b`: along an edge, to error,
\* through uploading while the files are read, or from the status a request
\* set to the status its loop ended in (routes.py writes the status only when
\* the loop has returned)
StatusMayGo(a, b) ==
  \/ <<a, b>> \in StatusEdges
  \/ b = "error"
  \/ <<a, b>> \in {<<"created", "uploading">>, <<"uploading", "uploaded">>}
  \/ a \in {"analyzing", "refining"} /\ b \in {"complete", "awaiting_feedback"}

\* C25: a session's status changes only along the edges created -> uploaded
\* -> analyzing -> generating -> executing -> evaluating -> {complete |
\* awaiting_feedback}, evaluating -> generating, {complete |
\* awaiting_feedback} -> refining -> generating, and any -> error; in
\* particular analyzing is entered only from uploaded.  Stated for the
\* registry's status of a session that is given feedback only while it is
\* complete or awaits feedback.
C25_StatusEdges ==
  [][(/\ session.status # "absent"
      /\ session'.status # session.status
      /\ FeedbackInOrder') =>
       /\ StatusMayGo(session.status, session'.status)
       /\ session'.status = "analyzing" => session.status = "uploaded"]_vars

\* C26: the error status is terminal for a session unless a new feedback
\* cycle is started: once the status is error, no operation other than
\* submit_feedback changes it.  Stated for a session that is given feedback
\* only while it is complete or awaits feedback.
C26_ErrorTerminal ==
  [][(session.status = "error" /\ session'.status # "error" /\ FeedbackInOrder') =>
       (AcceptsFeedback /\ session'.status = "refining")]_vars

\* the current code of `state` is not among its earlier codes
CurrentCodeNotInHistory(state) ==
  \A i \in 1..Len(state.code_history) : state.code_history[i] # state.python_code

\* C27: code_history never contains the currently active code: in every
\* reachable state of a session, whatever texts the LLM returns (the same
\* text on two generations included), the current python_code is not an
\* element of code_history.
C27_HistoryExcludesCurrent ==
  /\ \A t \in TaskIds : CurrentCodeNotInHistory(tasks[t].state)
  /\ \A t \in DOMAIN heap : CurrentCodeNotInHistory(heap[t])

\* the statuses a loop run may end in
EndStatus == {"complete", "awaiting_feedback"}

\* C28: in every reachable state the status of a session, in the registry
\* and in the agent's state, is one of created, uploading, uploaded,
\* analyzing, generating, executing, evaluating, awaiting_feedback, refining,
\* complete, error; and when a loop run ends without an exception its status
\* is complete or awaiting_feedback.
C28_StatusClosed ==
  /\ session # NoSession => session.status \in SessionStatus
  /\ checkpoint.values.status \in SessionStatus
  /\ \A k \in DOMAIN heap : heap[k].status \in SessionStatus
  /\ \A t \in TaskIds :
       /\ tasks[t].state.status \in SessionStatus
       /\ tasks[t].pc = "finish" => tasks[t].state.status \in EndStatus
       /\ (tasks[t].pc = "done" /\ tasks[t].outcome # "error") =>
            tasks[t].outcome \in EndStatus

\* a feedback round has ended awaiting feedback again and the registry
\* shows it
C28_Witness ==
  /\ session.status = "awaiting_feedback"
  /\ session.results # 0
  /\ heap[session.results].status = "awaiting_feedback"
  /\ \E t \in TaskIds :
       /\ tasks[t].kind = "feedback"
       /\ tasks[t].pc = "done"
       /\ tasks[t].outcome = "awaiting_feedback"
       /\ session.results = t

\* what the generating step of task t does to the state, the prompt aside
GenerateEffects(t) ==
  LET before == tasks[t].state
      after == tasks'[t].state
  IN  /\ after.iterations = before.iterations + 1
      /\ after.execution_error = None
      /\ after.status = "executing"
      /\ after.code_history = IF before.python_code # <<>>
                              THEN before.code_history \o <<before.python_code>>
                              ELSE before.code_history
      /\ after.dataset_a = before.dataset_a
      /\ after.dataset_b = before.dataset_b
      /\ after.max_iterations = before.max_iterations
      /\ after.match_rate = before.match_rate
      /\ after.match_count = before.match_count
      /\ after.matched_records = before.matched_records
      /\ after.unmatched_a = before.unmatched_a
      /\ after.unmatched_b = before.unmatched_b

\* the prompt carries the prior error text exactly when the previous
\* execution failed
PromptHasPriorError(t) ==
  LET before == tasks[t].state
  IN  /\ (PreviousError(before) # None) <=> (before.execution_error # None)
      /\ PreviousError(before) # None => PreviousError(before) = before.execution_error

\* C29: each execution of the generating step increments the iteration
\* counter by exactly 1, clears any previous execution error, sets status to
\* executing and moves the previously active non-empty code to the end of
\* code_history; it passes the prior error text to the LLM exactly when the
\* previous execution failed, and leaves the tables, max_iterations and match
\* results unchanged.
C29_GenerateStep ==
  [][\A t \in TaskIds : Generates(t) => (GenerateEffects(t) /\ PromptHasPriorError(t))]_vars

\* the generating step's effects on the state alone, which hold
GenerateEffectsHold ==
  [][\A t \in TaskIds : Generates(t) => GenerateEffects(t)]_vars

\* the step in which the sandbox run of task t returns a failure
RunFails(t) ==
  /\ tasks[t].pc = "execute"
  /\ tasks'[t].result.returns
  /\ ~tasks'[t].result.success

\* the step in which the evaluate node of task t looks at a failed run
EvaluatesFailure(t) ==
  /\ tasks[t].pc = "evaluate"
  /\ tasks'[t].pc # "evaluate"
  /\ tasks[t].state.execution_error # None

\* C30: sandbox failures stay inside the loop: a failed sandbox run never
\* puts the session in status error and never escapes to the caller as a
\* hard failure; after the evaluation of a failed run the next step is
\* generating again when iterations < max_iterations, and the session goes
\* to awaiting_feedback when iterations >= max_iterations.
C30_SandboxFailureStaysInLoop ==
  [][\A t \in TaskIds :
       /\ RunFails(t) =>
            /\ tasks'[t].pc = "evaluate"
            /\ tasks'[t].state.status = "evaluating"
            /\ tasks'[t].state.execution_error = tasks'[t].result.error
            /\ tasks'[t].outcome = None
            /\ session' = session
       /\ EvaluatesFailure(t) =>
            IF tasks[t].state.iterations < tasks[t].state.max_iterations
            THEN /\ tasks'[t].pc = "generate"
                 /\ tasks'[t].state.status = "generating"
            ELSE /\ tasks'[t].pc = "finish"
                 /\ tasks'[t].state.status = "awaiting_feedback"
       /\ (tasks[t].pc = "finish" /\ tasks'[t].pc = "done"
             /\ tasks[t].state.execution_error # None) =>
            /\ tasks'[t].outcome = "awaiting_feedback"
            /\ session'.status = "awaiting_feedback"
            /\ session'.error = None]_vars

\* a loop whose last run failed has returned: the session awaits feedback
C30_Witness ==
  \E t \in TaskIds :
    /\ tasks[t].pc = "done"
    /\ tasks[t].outcome = "awaiting_feedback"
    /\ tasks[t].state.execution_error # None
    /\ tasks[t].state.iterations >= tasks[t].state.max_iterations
    /\ tasks[t].code_requests > 1
    /\ session.status = "awaiting_feedback"

\* the program changes, in place, the table its scope binds to df_a
RewritesScopeTable(code) == \E i \in 1..Len(clean_code(code)) : clean_code(code)[i] = L_DROP

\* the tables the run was started on: the ones the upload stored in the
\* session and the initial state was built from
StartedOn(t, a, b) ==
  /\ tasks[t].initial_state.dataset_a = a
  /\ tasks[t].initial_state.dataset_b = b

\* C31: the program runs on copies of the two tables: whatever it does to
\* the tables bound in its scope, dropping their rows included, after
\* execute the tables of the caller's state and the session's stored
\* datasets are the ones the run was started on, and total_a and the
\* denominator of match_rate are the row count of that table A.
C31_RunsOnCopies ==
  \A t \in TaskIds :
    (JustExecuted(t) /\ tasks[t].result.returns /\ tasks[t].result.ran) =>
      LET state == tasks[t].state
          result == tasks[t].result
      IN  /\ StartedOn(t, state.dataset_a, state.dataset_b)
          /\ checkpoint.values.dataset_a = state.dataset_a
          /\ checkpoint.values.dataset_b = state.dataset_b
          /\ session.df_a = DataFrame(state.dataset_a)
          /\ session.df_b = DataFrame(state.dataset_b)
          /\ state.total_a = Len(state.dataset_a)
          /\ result.success =>
               /\ result.total_a = Len(state.dataset_a)
               /\ result.total_b = Len(state.dataset_b)
               /\ result.match_rate = MatchRate(result.match_count, Len(state.dataset_a))

C31_Witness ==
  \E t \in TaskIds :
    /\ JustExecuted(t)
    /\ tasks[t].state.python_code = C_DROP_FIRST
    /\ RewritesScopeTable(tasks[t].state.python_code)
    /\ tasks[t].result.success
    /\ tasks[t].result.match_count = 0
    /\ tasks[t].result.total_a = 10
    /\ Len(tasks[t].state.dataset_a) = 10

\* C32: the decision of the evaluator depends on the configured threshold:
\* for every setting of MATCH_RATE_THRESHOLD, evaluate_results and
\* should_continue declare completion exactly when the run has no error and
\* match_rate >= settings.MATCH_RATE_THRESHOLD.
C32_ConfiguredThreshold ==
  \A t \in TaskIds :
    Evaluated(t) =>
      LET state == tasks[t].state
          reached == /\ state.execution_error = None
                     /\ RateGE(state.match_rate, settings.MATCH_RATE_THRESHOLD)
      IN  /\ state.status = "complete" <=> reached
          /\ should_continue(state) = "complete" <=> reached

\* the route that carries out a status set by evaluate_results
RouteFor(status) ==
  CASE status = "complete" -> "complete"
    [] status = "awaiting_feedback" -> "await_feedback"
    [] status = "generating" -> "retry"

\* C33: immediately after evaluate_results the router agrees with it:
\* should_continue returns complete exactly when the status was set to
\* complete, await_feedback exactly when it was set to awaiting_feedback and
\* retry exactly when it was set to generating, and the node run next is
\* generate on retry and none (the graph ends) otherwise.
C33_RouterAgrees ==
  \A t \in TaskIds :
    Evaluated(t) =>
      LET state == tasks[t].state
      IN  /\ state.status \in {"complete", "awaiting_feedback", "generating"}
          /\ should_continue(state) = RouteFor(state.status)
          /\ tasks[t].pc = "generate" <=> state.status = "generating"
          /\ tasks[t].pc = "finish" <=> state.status \in {"complete", "awaiting_feedback"}

C33_Witness ==
  \E t \in TaskIds :
    /\ Evaluated(t)
    /\ tasks[t].state.match_rate = Rate(19, 20)
    /\ tasks[t].state.execution_error = None
    /\ tasks[t].state.iterations < tasks[t].state.max_iterations
    /\ should_continue(tasks[t].state) = "complete"
    /\ tasks[t].pc = "finish"

\* what a state of status complete or awaiting_feedback has to show
StatusJustified(state) ==
  /\ state.status = "complete" =>
       /\ state.execution_error = None
       /\ RateGE(state.match_rate, Threshold)
  /\ state.status = "awaiting_feedback" => state.iterations >= state.max_iterations

\* C34: in every state the loop produces (the state a task works on, the
\* checkpoint, the states the agent returned and the one the registry
\* shows), status complete implies that the last execution had no error and
\* match_rate >= 0.95, and status awaiting_feedback implies iterations >=
\* max_iterations, after any sequence of retries and feedback submissions.
C34_StatusJustified ==
  /\ \A t \in TaskIds : StatusJustified(tasks[t].state)
  /\ StatusJustified(checkpoint.values)
  /\ \A h \in DOMAIN heap : StatusJustified(heap[h])
  /\ (session.results # 0 /\ session.status \in {"complete", "awaiting_feedback"}) =>
       StatusJustified([heap[session.results] EXCEPT !.status = session.status])

C34_Witness ==
  \E t \in TaskIds :
    /\ tasks[t].kind = "feedback"
    /\ tasks[t].pc = "done"
    /\ tasks[t].state.status = "complete"
    /\ tasks[t].state.iterations > tasks[t].state.max_iterations
    /\ session.status = "complete"
    /\ session.results # 0

\* C35: on a failed sandbox run execute_code sets match_rate to 0.0 and
\* match_count to 0 and leaves matched_records, unmatched_a and unmatched_b
\* as they were, so that after a successful run followed by a failed one the
\* state holds the record sets of the earlier run next to match_count 0.
C35_FailureKeepsRecords ==
  [][\A t \in TaskIds :
       RunFails(t) =>
         /\ tasks'[t].state.match_rate = Zero
         /\ tasks'[t].state.match_count = 0
         /\ tasks'[t].state.matched_records = tasks[t].state.matched_records
         /\ tasks'[t].state.unmatched_a = tasks[t].state.unmatched_a
         /\ tasks'[t].state.unmatched_b = tasks[t].state.unmatched_b
         /\ checkpoint'.values = tasks'[t].state]_vars

C35_Witness ==
  \E t \in TaskIds :
    /\ tasks[t].pc = "evaluate"
    /\ tasks[t].state.code_history = <<C_HEAD>>
    /\ tasks[t].state.python_code = C_RAISE
    /\ tasks[t].state.execution_error # None
    /\ tasks[t].state.matched_records = Rows(1)
    /\ tasks[t].state.unmatched_a = <<>>
    /\ tasks[t].state.match_count = 0
    /\ tasks[t].state.match_rate = Zero
    /\ Len(tasks[t].state.dataset_a) = 10

\* the denylisted fragment lies outside the fenced block: the text that
\* fence stripping would leave holds none
BlockedOutsideFence(code) == Denylisted(code) /\ ~Denylisted(clean_code(code))

\* C36: execute applies the denylist to the raw text of the LLM, before the
\* fences are stripped: a denylisted fragment anywhere in the text, also
\* outside the fenced block, yields the blocked failure, and only a text
\* that passed validation is stripped and handed to exec().
C36_ValidateBeforeClean ==
  \A t \in TaskIds :
    JustExecuted(t) =>
      LET code == tasks[t].state.python_code
          result == tasks[t].result
      IN  /\ BlockedOutsideFence(code) =>
               /\ result.returns /\ ~result.success /\ ~result.ran
               /\ result.error = validate_code(code)[2]
               /\ result.error \in BlockedMessages
               /\ clean_code(code) \notin exec_calls
          /\ result.ran <=> validate_code(code)[1]
          /\ exec_calls = IF validate_code(code)[1] THEN {clean_code(code)} ELSE {}

C36_Witness ==
  \E t \in TaskIds :
    /\ JustExecuted(t)
    /\ BlockedOutsideFence(tasks[t].state.python_code)
    /\ clean_code(tasks[t].state.python_code) = C_PLAIN
    /\ ~tasks[t].result.success
    /\ exec_calls = {}

\* the loop of task t was resumed by feedback on a state whose counter had
\* reached max_iterations (the counter now, less the generations of t)
FeedbackRound(t) ==
  /\ tasks[t].kind = "feedback"
  /\ tasks[t].current_state # 0
  /\ tasks[t].pc # "done"
  /\ tasks[t].state.iterations - tasks[t].code_requests >= tasks[t].state.max_iterations

StatusReported == response.op = "get_status" /\ response.code = 200

\* C38: the registry's view of a session changes only when a background
\* loop finishes: from the start of a first run until its loop ends the
\* session holds status analyzing and no results, and get_status reports
\* analyzing with iteration 0 and match_rate 0.0, never generating,
\* executing or evaluating; results and final status appear together.
C38_RegistryUpdatedAtEnd ==
  \A t \in TaskIds :
    /\ tasks[t].pc # "done" =>
         /\ session.status = "analyzing"
         /\ session.results = 0
         /\ StatusReported =>
              /\ response.body.status = "analyzing"
              /\ response.body.iteration = 0
              /\ response.body.match_rate = Zero
    /\ tasks[t].pc = "done" =>
         /\ session.results = t
         /\ session.status = tasks[t].outcome
         /\ session.status \in {"complete", "awaiting_feedback", "error"}
         /\ StatusReported =>
              /\ response.body.status = tasks[t].outcome
              /\ response.body.iteration = heap[t].iterations

C38_Witness ==
  \E t \in TaskIds :
    /\ StatusReported
    /\ tasks[t].pc = "evaluate"
    /\ tasks[t].state.status = "evaluating"
    /\ tasks[t].state.iterations = 2
    /\ RateGE(tasks[t].state.match_rate, Threshold)
    /\ response.body.status = "analyzing"
    /\ response.body.iteration = 0

====
